---- MODULE Spec2Model ----
(***************************************************************************)
(* A model of the token authority of go-oauth2-server:                     *)
(*   - oauth.Service.Authenticate over the relational tables               *)
(*     (src/oauth/authenticate.go),                                        *)
(*   - the authorization-code operations of the in-memory backend          *)
(*     (src/storage/memory.go),                                            *)
(*   - the cache-assisted client, user and access-token operations of the  *)
(*     relational backend (src/storage/postgres/postgres.go) over a        *)
(*     CacheProvider,                                                      *)
(*   - MemoryStorage under its lock and the two backends in lockstep       *)
(*     (src/storage/memory.go, src/storage/postgres/postgres.go),          *)
(*   - the SDK: Builder, GrantPasswordToken, the Server's introspection    *)
(*     endpoint and the background workers (src/unnamed/part_000,          *)
(*     src/storage/factory.go),                                            *)
(*   - the refresh grant's rotation over MemoryStorage's refresh-token     *)
(*     operations (the grant itself is not in src/).                       *)
(*   - MemoryCache, one caller at a time and two callers at once           *)
(*     (src/storage/factory.go),                                           *)
(*   - CleanupExpiredTokens of the relational backend                      *)
(*     (src/storage/postgres/postgres.go).                                 *)
(* Time is a discrete clock; one tick is one unit of every duration.       *)
(***************************************************************************)
EXTENDS Integers, FiniteSets, Sequences, TLC

VARIABLES
    now,            \* the wall clock (time.Now / gorm.NowFunc)
    accessTokens,   \* table oauth_access_tokens: token string -> row
    refreshTokens,  \* table oauth_refresh_tokens: token string -> row
    apc,            \* Authenticate: position of each caller
    atok,           \* Authenticate: the argument `token`
    aat,            \* Authenticate: the local `accessToken`
    anow,           \* Authenticate: the value of time.Now().UTC() at line 30
    ainc,           \* Authenticate: the local `increasedExpiresAt`
    aret,           \* Authenticate: the returned *OauthAccessToken (<<>> is nil)
    ares,           \* Authenticate: the returned error ("ok" is nil)
    authCodes,      \* MemoryStorage.authCodes: code string -> code
    rpc,            \* code redemption: position of each caller
    rcode,          \* code redemption: the code string presented
    rgot,           \* code redemption: what GetAuthorizationCode returned (<<>> is nil)
    rerr,           \* code redemption: the error of the redemption ("ok" is nil)
    rsecond,        \* history: the lookup came after a completed redemption of the code
    obtained,       \* history: per code, the lookups that returned it since it was stored
    redeemed,       \* history: the codes redeemed (looked up, then deleted) and not stored since
    faults,         \* which of the remote services ("db", "cache") may fail in this run
    provider,       \* CacheConfig.Provider: "redis" or "memory"
    cacheOk,        \* history: the last call of the cache returned no error
    dbClients,      \* table oauth_clients: key -> row
    dbUsers,        \* table oauth_users: username -> row
    dbTokens,       \* PostgreSQLStorage's table oauth_access_tokens: token -> row
    dbRefresh,      \* PostgreSQLStorage's table oauth_refresh_tokens: token -> row
    dbCodes,        \* PostgreSQLStorage's table oauth_authorization_codes: code -> row
    cache,          \* the CacheProvider's entries: key -> [val, ttl, exp]
    ppc,            \* PostgreSQLStorage call: position of each caller
    pop,            \* PostgreSQLStorage call: the method called
    pkey,           \* PostgreSQLStorage call: the key argument
    pval,           \* PostgreSQLStorage call: the record argument or the row read (<<>> is none)
    pret,           \* PostgreSQLStorage call: the returned record (<<>> is nil)
    perr,           \* PostgreSQLStorage call: the returned error ("ok" is nil)
    updated,        \* history: per client key, the value of the last returned UpdateClient
    revoked,        \* history: the token strings deleted by a returned DeleteAccessToken
    mClients,       \* MemoryStorage.clients: key -> client
    mUsers,         \* MemoryStorage.users: username -> user
    mUsersByID,     \* MemoryStorage.usersByID: user id -> user
    mScopes,        \* MemoryStorage.scopes: scope name -> scope
    mAccessTokens,  \* MemoryStorage.accessTokens: token string -> token
    mRefreshTokens, \* MemoryStorage.refreshTokens: token string -> token
    mClosed,        \* MemoryStorage: Close has set the maps to nil
    muWriter,       \* MemoryStorage.mu: the callers holding the write lock
    muReaders,      \* MemoryStorage.mu: the callers holding the read lock
    mpc,            \* MemoryStorage call: position of each caller
    mop,            \* MemoryStorage call: the method called
    mkey,           \* MemoryStorage call: the key argument
    marg,           \* MemoryStorage call: the other argument (<<>> is none)
    mret,           \* MemoryStorage call: the returned record (<<>> is nil)
    merr,           \* MemoryStorage call: the returned error ("ok" is nil)
    backend,        \* StorageConfig.Primary.Type of the SDK: "memory" or "postgres"
    cacheCfg,       \* StorageConfig.Cache of the SDK: its Provider, "none" when nil
    built,          \* Builder.Build has returned the SDK
    berr,           \* Builder.Build: the returned error ("ok" is nil, "none" before the call)
    gpc,            \* GrantPasswordToken: position
    garg,           \* GrantPasswordToken: the arguments
    gclient,        \* GrantPasswordToken: the local `client` (<<>> is nil)
    guser,          \* GrantPasswordToken: the local `user` (<<>> is nil)
    gret,           \* GrantPasswordToken: the returned error ("ok" is nil)
    gresp,          \* GrantPasswordToken: the returned *TokenResponse (<<>> is nil)
    gsteps,         \* history: the calls GrantPasswordToken has made
    lastOp,         \* history: the last operation applied to both backends
    outMem,         \* history: what MemoryStorage returned for it
    outPg,          \* history: what PostgreSQLStorage returned for it
    iresp,          \* introspectHandler: the JSON body of the last response (<<>> before any)
    rotPc,          \* refresh grant: position of each caller
    rotArg,         \* refresh grant: the request (refresh token string, scope asked)
    rotOld,         \* refresh grant: the refresh token looked up (<<>> is nil)
    rotNew,         \* refresh grant: the string of the refresh token issued ("" is none)
    rotErr,         \* refresh grant: the returned error ("ok" is nil)
    mcData,         \* MemoryCache.data: key -> CacheItem [val, exp]
    mcClosed,       \* MemoryCache.data is nil (Close has run)
    mcFatal,        \* the runtime has stopped the process on a concurrent map access
    mcLast,         \* history: per key, the last Set not followed by a removal (<<>> is none)
    serial,         \* the callers of MemoryCache take turns (a call starts after the last has returned)
    cpc,            \* MemoryCache call: position of each caller
    cop,            \* MemoryCache call: the method called
    carg,           \* MemoryCache call: the arguments
    cret            \* MemoryCache call: what the method returned (<<>> before it has)

authVars == <<accessTokens, refreshTokens, apc, atok, aat, anow, ainc, aret, ares>>
codeVars == <<authCodes, rpc, rcode, rgot, rerr, rsecond, obtained, redeemed>>
pgTables == <<dbClients, dbUsers, dbTokens, dbRefresh, dbCodes>>
pgCall == <<ppc, pop, pkey, pval, pret, perr>>
pgVars == <<faults, provider, cacheOk, pgTables, cache, pgCall, updated, revoked>>
memMaps == <<mClients, mUsers, mUsersByID, mScopes, mAccessTokens, mRefreshTokens, mClosed>>
memVars == <<memMaps, muWriter, muReaders, mpc, mop, mkey, marg, mret, merr>>
sdkCall == <<built, berr, gpc, garg, gclient, guser, gret, gresp, gsteps>>
rotVars == <<rotPc, rotArg, rotOld, rotNew, rotErr>>
mcVars == <<mcData, mcClosed, mcFatal, mcLast, serial, cpc, cop, carg, cret>>
sdkVars == <<backend, cacheCfg, sdkCall, lastOp, outMem, outPg, iresp, rotVars, mcVars>>
vars == <<now, authVars, codeVars, pgVars, memVars, sdkVars>>

----------------------------------------------------------------------------
(* Bounds of the model *)

MaxTime == 2

\* two concurrent callers of the service
Callers == {"p1", "p2"}

----------------------------------------------------------------------------
(* The clock *)

Tick ==
    /\ now < MaxTime
    /\ now' = now + 1

----------------------------------------------------------------------------
(* Maps (Go map[string]*T): functions on the set of keys present *)

Put(m, k, v) == [x \in DOMAIN m \cup {k} |-> IF x = k THEN v ELSE m[x]]

Remove(m, k) == [x \in DOMAIN m \ {k} |-> m[x]]

\* time.Time.Before
Before(t, u) == t < u

\* a comparison that also counts the instant of expiry as after it
AfterOrEqual(t, u) == t >= u

\* time.Time.After
After(t, u) == t > u

----------------------------------------------------------------------------
(* MemoryStorage: authorization codes.  Every operation runs under m.mu, so *)
(* each is one step.  A redemption is a caller that looks a code up and,   *)
(* having got it, deletes it.                                             *)

Codes == {"k1", "k2"}

ErrCodeNotFound == "CodeNotFound"
ErrCodeExpired == "CodeExpired"

\* NewMemoryStorage: empty maps; nobody is redeeming
CodeInit ==
    /\ authCodes = <<>>
    /\ rpc = [p \in Callers |-> "idle"]
    /\ rcode = [p \in Callers |-> ""]
    /\ rgot = [p \in Callers |-> <<>>]
    /\ rerr = [p \in Callers |-> "none"]
    /\ rsecond = [p \in Callers |-> FALSE]
    /\ obtained = [c \in Codes |-> 0]
    /\ redeemed = {}

\* MemoryStorage.GetAuthorizationCode: <<error, code>>
GetAuthorizationCode(codes, c, t) ==
    IF c \in DOMAIN codes
    THEN IF Before(codes[c].expiresAt, t)
         THEN <<ErrCodeExpired, <<>> >>
         ELSE <<"ok", <<codes[c]>> >>
    ELSE <<ErrCodeNotFound, <<>> >>

\* a delete that leaves the map as it is
KeepAuthorizationCode(codes, c) == codes

\* MemoryStorage.DeleteAuthorizationCode: delete(m.authCodes, codeStr)
DeleteAuthorizationCode(codes, c) == Remove(codes, c)

\* MemoryStorage.StoreAuthorizationCode
StoreAuthorizationCode(c, exp) ==
    /\ authCodes' = Put(authCodes, c, [expiresAt |-> exp, createdAt |-> now])
    /\ obtained' = [obtained EXCEPT ![c] = 0]
    /\ redeemed' = redeemed \ {c}
    /\ UNCHANGED <<now, rpc, rcode, rgot, rerr, rsecond>>
    /\ UNCHANGED <<authVars, pgVars, memVars, sdkVars>>

\* the lookup of a redemption
RedeemGet(p, c) ==
    /\ rpc[p] = "idle"
    /\ LET r == GetAuthorizationCode(authCodes, c, now) IN
        /\ rcode' = [rcode EXCEPT ![p] = c]
        /\ rgot' = [rgot EXCEPT ![p] = r[2]]
        /\ rsecond' = [rsecond EXCEPT ![p] = c \in redeemed]
        /\ IF r[1] = "ok"
           THEN /\ rpc' = [rpc EXCEPT ![p] = "got"]
                /\ rerr' = rerr
                /\ obtained' = [obtained EXCEPT ![c] = @ + 1]
           ELSE /\ rpc' = [rpc EXCEPT ![p] = "done"]
                /\ rerr' = [rerr EXCEPT ![p] = r[1]]
                /\ obtained' = obtained
    /\ UNCHANGED <<now, authCodes, redeemed>>
    /\ UNCHANGED <<authVars, pgVars, memVars, sdkVars>>

\* the delete of a redemption; DeleteAuthorizationCode returns nil
RedeemDelete(p) ==
    /\ rpc[p] = "got"
    /\ authCodes' = DeleteAuthorizationCode(authCodes, rcode[p])
    /\ redeemed' = redeemed \cup {rcode[p]}
    /\ rerr' = [rerr EXCEPT ![p] = "ok"]
    /\ rpc' = [rpc EXCEPT ![p] = "done"]
    /\ UNCHANGED <<now, rcode, rgot, rsecond, obtained>>
    /\ UNCHANGED <<authVars, pgVars, memVars, sdkVars>>

\* the caller takes the result and may redeem again
RedeemReturn(p) ==
    /\ rpc[p] = "done"
    /\ rpc' = [rpc EXCEPT ![p] = "idle"]
    /\ rcode' = [rcode EXCEPT ![p] = ""]
    /\ rgot' = [rgot EXCEPT ![p] = <<>>]
    /\ rerr' = [rerr EXCEPT ![p] = "none"]
    /\ rsecond' = [rsecond EXCEPT ![p] = FALSE]
    /\ UNCHANGED <<now, authCodes, obtained, redeemed>>
    /\ UNCHANGED <<authVars, pgVars, memVars, sdkVars>>

CodeTick == Tick /\ UNCHANGED <<authVars, codeVars, pgVars, memVars, sdkVars>>

CodeNext ==
    \/ CodeTick
    \/ \E c \in Codes, exp \in 0..MaxTime : StoreAuthorizationCode(c, exp)
    \/ \E p \in Callers, c \in Codes : RedeemGet(p, c)
    \/ \E p \in Callers : RedeemDelete(p)
    \/ \E p \in Callers : RedeemReturn(p)

----------------------------------------------------------------------------
(* PostgreSQLStorage over a CacheProvider: clients and users.  Each call   *)
(* of the database and each call of the cache is one step; the clock of    *)
(* this part counts minutes.                                               *)

ClientKeys == {"c1"}
Usernames == {"alice"}
TokenStrs == {"t1"}

\* the contents a client or user record can have
Rows == {1, 2}

\* the ttl of GetClient's and GetUser's cache.Set: 5*time.Minute
EntityCacheTTL == 5

ErrBackend == "BackendError"

\* fmt.Sprintf("client:%s", clientID), "user:%s", "access_token:%s"
CacheKey(kind, id) == <<kind, id>>

\* the outcomes of a call of the database and of the cache: true is success
DbOutcomes == IF "db" \in faults THEN BOOLEAN ELSE {TRUE}
CacheOutcomes == IF "cache" \in faults THEN BOOLEAN ELSE {TRUE}

\* CacheProvider.Set(key, value, ttl)
CacheSet(c, k, v, ttl) == Put(c, k, [val |-> v, ttl |-> ttl, exp |-> now + ttl])

\* the zero value of the record a lookup declares: var client models.OauthClient
ZeroValue(kind) == IF kind = "access_token" THEN [expiresAt |-> 0] ELSE 0

\* what a hit of CacheProvider.Get(key, dest) leaves in dest: RedisCache.Get
\* unmarshals the entry into it, MemoryCache.Get leaves it as it was
CacheRead(c, k, kind) == IF provider = "memory" THEN ZeroValue(kind) ELSE c[k].val

\* CacheProvider.Get(key, dest) finds an entry that has not expired
CacheHit(c, k) == k \in DOMAIN c /\ ~After(now, c[k].exp)

\* CacheProvider.Delete(key)
CacheDelete(c, k) == Remove(c, k)

\* NewPostgreSQLStorage: an empty cache, no call in progress
PgIdle ==
    /\ cache = <<>>
    /\ ppc = [p \in Callers |-> "idle"]
    /\ pop = [p \in Callers |-> ""]
    /\ pkey = [p \in Callers |-> ""]
    /\ pval = [p \in Callers |-> <<>>]
    /\ pret = [p \in Callers |-> <<>>]
    /\ perr = [p \in Callers |-> "none"]
    /\ cacheOk = TRUE
    /\ updated = [k \in ClientKeys |-> <<>>]
    /\ revoked = {}

\* the same over empty tables
PgInit ==
    /\ dbClients = <<>>
    /\ dbUsers = <<>>
    /\ dbTokens = <<>>
    /\ dbRefresh = <<>>
    /\ dbCodes = <<>>
    /\ PgIdle

\* caller p enters method op with key k and record argument v
Enter(p, op, k, v) ==
    /\ ppc[p] = "idle"
    /\ pop' = [pop EXCEPT ![p] = op]
    /\ pkey' = [pkey EXCEPT ![p] = k]
    /\ pval' = [pval EXCEPT ![p] = v]

\* caller p is inside method op at position at
Inside(p, op, at) == ppc[p] = at /\ pop[p] = op

\* the method returns (ret, err)
Return(p, ret, err) ==
    /\ ppc' = [ppc EXCEPT ![p] = "done"]
    /\ pret' = [pret EXCEPT ![p] = ret]
    /\ perr' = [perr EXCEPT ![p] = err]

\* the method goes on at position at
Goto(p, at) ==
    /\ ppc' = [ppc EXCEPT ![p] = at]
    /\ UNCHANGED <<pret, perr>>

\* "Try cache first": a hit returns dest, everything else goes on to the
\* database
LookupCache(p, op, kind, k) ==
    /\ Enter(p, op, k, <<>>)
    /\ \E ok \in CacheOutcomes :
        /\ cacheOk' = ok
        /\ IF ok /\ CacheHit(cache, CacheKey(kind, k))
           THEN Return(p, <<CacheRead(cache, CacheKey(kind, k), kind)>>, "ok")
           ELSE Goto(p, "db")
    /\ UNCHANGED <<now, faults, provider, pgTables, cache, updated, revoked>>
    /\ UNCHANGED <<authVars, codeVars, memVars, sdkVars>>

\* "Query database": a missing record returns (nil, nil)
LookupDb(p, op, tbl) ==
    /\ Inside(p, op, "db")
    /\ \E ok \in DbOutcomes :
        IF ~ok
        THEN Return(p, <<>>, ErrBackend) /\ pval' = pval
        ELSE IF pkey[p] \notin DOMAIN tbl
             THEN Return(p, <<>>, "ok") /\ pval' = pval
             ELSE Goto(p, "set") /\ pval' = [pval EXCEPT ![p] = <<tbl[pkey[p]]>>]
    /\ UNCHANGED <<now, faults, provider, cacheOk, pgTables, cache, pop, pkey, updated, revoked>>
    /\ UNCHANGED <<authVars, codeVars, memVars, sdkVars>>

\* a fill that reports the error of cache.Set
LookupFillChecked(p, op, kind) ==
    /\ Inside(p, op, "set")
    /\ \E ok \in CacheOutcomes :
        /\ cacheOk' = ok
        /\ cache' = IF ok
                    THEN CacheSet(cache, CacheKey(kind, pkey[p]), pval[p][1], EntityCacheTTL)
                    ELSE cache
        /\ IF ok THEN Return(p, pval[p], "ok") ELSE Return(p, <<>>, ErrBackend)
    /\ UNCHANGED <<now, faults, provider, pgTables, pop, pkey, pval, updated, revoked>>
    /\ UNCHANGED <<authVars, codeVars, memVars, sdkVars>>

\* "Cache the result": the error of cache.Set is dropped
LookupFill(p, op, kind) ==
    /\ Inside(p, op, "set")
    /\ \E ok \in CacheOutcomes :
        /\ cacheOk' = ok
        /\ cache' = IF ok
                    THEN CacheSet(cache, CacheKey(kind, pkey[p]), pval[p][1], EntityCacheTTL)
                    ELSE cache
    /\ Return(p, pval[p], "ok")
    /\ UNCHANGED <<now, faults, provider, pgTables, pop, pkey, pval, updated, revoked>>
    /\ UNCHANGED <<authVars, codeVars, memVars, sdkVars>>

\* PostgreSQLStorage.GetClient
GetClientCache(p, k) == LookupCache(p, "GetClient", "client", k)
GetClientDb(p) == LookupDb(p, "GetClient", dbClients)
GetClientFill(p) == LookupFill(p, "GetClient", "client")

\* PostgreSQLStorage.GetUser
GetUserCache(p, u) == LookupCache(p, "GetUser", "user", u)
GetUserDb(p) == LookupDb(p, "GetUser", dbUsers)
GetUserFill(p) == LookupFill(p, "GetUser", "user")

\* the database call of a write of client k: newTbl is the table it leaves
ClientWrite(p, op, k, v, allowed, newTbl) ==
    /\ Enter(p, op, k, v)
    /\ \E ok \in DbOutcomes :
        IF ok /\ allowed
        THEN /\ dbClients' = newTbl
             /\ updated' = [updated EXCEPT ![k] = <<>>]
             /\ Goto(p, "inval")
        ELSE /\ UNCHANGED <<dbClients, updated>>
             /\ Return(p, <<>>, ErrBackend)
    /\ UNCHANGED <<now, faults, provider, cacheOk, dbUsers, dbRefresh, dbCodes, dbTokens, cache, revoked>>
    /\ UNCHANGED <<authVars, codeVars, memVars, sdkVars>>

\* "Invalidate cache": the error of cache.Delete is dropped
ClientInvalidate(p, op) ==
    /\ Inside(p, op, "inval")
    /\ \E ok \in CacheOutcomes :
        /\ cacheOk' = ok
        /\ cache' = IF ok THEN CacheDelete(cache, CacheKey("client", pkey[p])) ELSE cache
    /\ Return(p, <<>>, "ok")
    /\ updated' =
        [updated EXCEPT ![pkey[p]] =
            IF /\ op = "UpdateClient"
               /\ ~\E q \in Callers \ {p} : ppc[q] = "inval" /\ pkey[q] = pkey[p]
               /\ pkey[p] \in DOMAIN dbClients
               /\ <<dbClients[pkey[p]]>> = pval[p]
            THEN pval[p] ELSE @]
    /\ UNCHANGED <<now, faults, provider, pgTables, pop, pkey, pval, revoked>>
    /\ UNCHANGED <<authVars, codeVars, memVars, sdkVars>>

\* PostgreSQLStorage.CreateClient: db.Create fails on a key already stored
CreateClientDb(p, k, v) ==
    ClientWrite(p, "CreateClient", k, <<v>>, k \notin DOMAIN dbClients, Put(dbClients, k, v))
CreateClientCache(p) == ClientInvalidate(p, "CreateClient")

\* PostgreSQLStorage.UpdateClient: db.Save
UpdateClientDb(p, k, v) ==
    ClientWrite(p, "UpdateClient", k, <<v>>, TRUE, Put(dbClients, k, v))
UpdateClientCache(p) == ClientInvalidate(p, "UpdateClient")

\* PostgreSQLStorage.DeleteClient
DeleteClientDb(p, k) ==
    ClientWrite(p, "DeleteClient", k, <<>>, TRUE, Remove(dbClients, k))
DeleteClientCache(p) == ClientInvalidate(p, "DeleteClient")

\* PostgreSQLStorage.CreateUser: db.Create and nothing else
CreateUser(p, u, v) ==
    /\ Enter(p, "CreateUser", u, <<v>>)
    /\ \E ok \in DbOutcomes :
        IF ok /\ u \notin DOMAIN dbUsers
        THEN dbUsers' = Put(dbUsers, u, v) /\ Return(p, <<>>, "ok")
        ELSE dbUsers' = dbUsers /\ Return(p, <<>>, ErrBackend)
    /\ UNCHANGED <<now, faults, provider, cacheOk, dbClients, dbRefresh, dbCodes, dbTokens, cache, updated, revoked>>
    /\ UNCHANGED <<authVars, codeVars, memVars, sdkVars>>

\* a delete that also removes the rows expiring at the time given
PgSweepThrough(tbl, time) ==
    [k \in {x \in DOMAIN tbl : After(tbl[x].expiresAt, time)} |-> tbl[k]]

\* db.Where("expires_at < ?", now).Delete(...): the rows left
PgSweep(tbl, time) ==
    [k \in {x \in DOMAIN tbl : ~Before(tbl[x].expiresAt, time)} |-> tbl[k]]

\* what a step of CleanupExpiredTokens leaves alone
SweepFrame ==
    /\ UNCHANGED <<now, faults, provider, cacheOk, dbClients, dbUsers, cache, updated, revoked>>
    /\ UNCHANGED <<authVars, codeVars, memVars, sdkVars>>

\* PostgreSQLStorage.CleanupExpiredTokens: now := time.Now(), "Clean up access
\* tokens"
CleanupAccessTokens(p) ==
    /\ Enter(p, "CleanupExpiredTokens", "", <<now>>)
    /\ \E ok \in DbOutcomes :
        IF ok
        THEN dbTokens' = PgSweep(dbTokens, now) /\ Goto(p, "refresh")
        ELSE dbTokens' = dbTokens /\ Return(p, <<>>, ErrBackend)
    /\ UNCHANGED <<dbRefresh, dbCodes>>
    /\ SweepFrame

\* "Clean up refresh tokens"
CleanupRefreshTokens(p) ==
    /\ Inside(p, "CleanupExpiredTokens", "refresh")
    /\ \E ok \in DbOutcomes :
        IF ok
        THEN dbRefresh' = PgSweep(dbRefresh, pval[p][1]) /\ Goto(p, "codes")
        ELSE dbRefresh' = dbRefresh /\ Return(p, <<>>, ErrBackend)
    /\ UNCHANGED <<dbTokens, dbCodes, pop, pkey, pval>>
    /\ SweepFrame

\* "Clean up authorization codes"
CleanupAuthorizationCodes(p) ==
    /\ Inside(p, "CleanupExpiredTokens", "codes")
    /\ \E ok \in DbOutcomes :
        IF ok
        THEN dbCodes' = PgSweep(dbCodes, pval[p][1]) /\ Return(p, <<>>, "ok")
        ELSE dbCodes' = dbCodes /\ Return(p, <<>>, ErrBackend)
    /\ UNCHANGED <<dbTokens, dbRefresh, pop, pkey, pval>>
    /\ SweepFrame

\* the caller takes the result and may call again
PgReturn(p) ==
    /\ ppc[p] = "done"
    /\ ppc' = [ppc EXCEPT ![p] = "idle"]
    /\ pop' = [pop EXCEPT ![p] = ""]
    /\ pkey' = [pkey EXCEPT ![p] = ""]
    /\ pval' = [pval EXCEPT ![p] = <<>>]
    /\ pret' = [pret EXCEPT ![p] = <<>>]
    /\ perr' = [perr EXCEPT ![p] = "none"]
    /\ UNCHANGED <<now, faults, provider, cacheOk, pgTables, cache, updated, revoked>>
    /\ UNCHANGED <<authVars, codeVars, memVars, sdkVars>>

PgTick == Tick /\ UNCHANGED <<authVars, codeVars, pgVars, memVars, sdkVars>>

ClientNext ==
    \/ PgTick
    \/ \E p \in Callers, k \in ClientKeys : GetClientCache(p, k)
    \/ \E p \in Callers : GetClientDb(p)
    \/ \E p \in Callers : GetClientFill(p)
    \/ \E p \in Callers, k \in ClientKeys, v \in Rows : CreateClientDb(p, k, v)
    \/ \E p \in Callers : CreateClientCache(p)
    \/ \E p \in Callers, k \in ClientKeys, v \in Rows : UpdateClientDb(p, k, v)
    \/ \E p \in Callers : UpdateClientCache(p)
    \/ \E p \in Callers, k \in ClientKeys : DeleteClientDb(p, k)
    \/ \E p \in Callers : DeleteClientCache(p)
    \/ \E p \in Callers, u \in Usernames : GetUserCache(p, u)
    \/ \E p \in Callers : GetUserDb(p)
    \/ \E p \in Callers : GetUserFill(p)
    \/ \E p \in Callers, u \in Usernames, v \in Rows : CreateUser(p, u, v)
    \/ \E p \in Callers : PgReturn(p)

----------------------------------------------------------------------------
(* PostgreSQLStorage over a CacheProvider: access tokens *)

\* CacheConfig.TTL as the SDK's builders set it: 5 * time.Minute
ConfiguredCacheTTL == 5

\* the expiry times an access token is issued with
TokenExpiries == {1, 8}

Min(a, b) == IF a < b THEN a ELSE b

\* time.Until(token.ExpiresAt)
Until(expiresAt) == expiresAt - now

\* a StoreAccessToken that writes the cache before the store: the entry stays
\* when db.Create fails
StoreAccessTokenCacheFirst(p, t, exp) ==
    /\ Enter(p, "StoreAccessToken", t, <<[expiresAt |-> exp]>>)
    /\ cache' = CacheSet(cache, CacheKey("access_token", t), [expiresAt |-> exp], Until(exp))
    /\ \E ok \in DbOutcomes :
        IF ok /\ t \notin DOMAIN dbTokens
        THEN /\ dbTokens' = Put(dbTokens, t, [expiresAt |-> exp])
             /\ revoked' = revoked \ {t}
             /\ Goto(p, "set")
        ELSE /\ UNCHANGED <<dbTokens, revoked>>
             /\ Return(p, <<>>, ErrBackend)
    /\ UNCHANGED <<now, faults, provider, cacheOk, dbClients, dbUsers, dbRefresh, dbCodes, updated>>
    /\ UNCHANGED <<authVars, codeVars, memVars, sdkVars>>

\* PostgreSQLStorage.StoreAccessToken: db.Create fails on a token string
\* already stored
StoreAccessTokenDb(p, t, exp) ==
    /\ Enter(p, "StoreAccessToken", t, <<[expiresAt |-> exp]>>)
    /\ \E ok \in DbOutcomes :
        IF ok /\ t \notin DOMAIN dbTokens
        THEN /\ dbTokens' = Put(dbTokens, t, [expiresAt |-> exp])
             /\ revoked' = revoked \ {t}
             /\ Goto(p, "set")
        ELSE /\ UNCHANGED <<dbTokens, revoked>>
             /\ Return(p, <<>>, ErrBackend)
    /\ UNCHANGED <<now, faults, provider, cacheOk, dbClients, dbUsers, dbRefresh, dbCodes, cache, updated>>
    /\ UNCHANGED <<authVars, codeVars, memVars, sdkVars>>

\* "Cache the token for fast lookup"
StoreAccessTokenCache(p) ==
    /\ Inside(p, "StoreAccessToken", "set")
    /\ \E ok \in CacheOutcomes :
        /\ cacheOk' = ok
        /\ cache' = IF ok
                    THEN CacheSet(cache, CacheKey("access_token", pkey[p]), pval[p][1],
                                  Until(pval[p][1].expiresAt))
                    ELSE cache
    /\ Return(p, <<>>, "ok")
    /\ UNCHANGED <<now, faults, provider, pgTables, pop, pkey, pval, updated, revoked>>
    /\ UNCHANGED <<authVars, codeVars, memVars, sdkVars>>

\* PostgreSQLStorage.GetAccessToken
GetAccessTokenCache(p, t) == LookupCache(p, "GetAccessToken", "access_token", t)
GetAccessTokenDb(p) == LookupDb(p, "GetAccessToken", dbTokens)

\* "Cache the result if not expired"
GetAccessTokenFill(p) ==
    /\ Inside(p, "GetAccessToken", "set")
    /\ \E ok \in CacheOutcomes :
        IF After(pval[p][1].expiresAt, now)
        THEN /\ cacheOk' = ok
             /\ cache' = IF ok
                         THEN CacheSet(cache, CacheKey("access_token", pkey[p]), pval[p][1],
                                       Until(pval[p][1].expiresAt))
                         ELSE cache
        ELSE UNCHANGED <<cacheOk, cache>>
    /\ Return(p, pval[p], "ok")
    /\ UNCHANGED <<now, faults, provider, pgTables, pop, pkey, pval, updated, revoked>>
    /\ UNCHANGED <<authVars, codeVars, memVars, sdkVars>>

\* PostgreSQLStorage.DeleteAccessToken: the DELETE succeeds on no row too
DeleteAccessTokenDb(p, t) ==
    /\ Enter(p, "DeleteAccessToken", t, <<>>)
    /\ \E ok \in DbOutcomes :
        IF ok
        THEN dbTokens' = Remove(dbTokens, t) /\ Goto(p, "inval")
        ELSE dbTokens' = dbTokens /\ Return(p, <<>>, ErrBackend)
    /\ UNCHANGED <<now, faults, provider, cacheOk, dbClients, dbUsers, dbRefresh, dbCodes, cache, updated, revoked>>
    /\ UNCHANGED <<authVars, codeVars, memVars, sdkVars>>

\* "Remove from cache": the error of cache.Delete is dropped
DeleteAccessTokenCache(p) ==
    /\ Inside(p, "DeleteAccessToken", "inval")
    /\ \E ok \in CacheOutcomes :
        /\ cacheOk' = ok
        /\ cache' = IF ok THEN CacheDelete(cache, CacheKey("access_token", pkey[p])) ELSE cache
    /\ Return(p, <<>>, "ok")
    /\ revoked' = IF pkey[p] \in DOMAIN dbTokens THEN revoked ELSE revoked \cup {pkey[p]}
    /\ UNCHANGED <<now, faults, provider, pgTables, pop, pkey, pval, updated>>
    /\ UNCHANGED <<authVars, codeVars, memVars, sdkVars>>

TokenNext ==
    \/ PgTick
    \/ \E p \in Callers, t \in TokenStrs, exp \in TokenExpiries : StoreAccessTokenDb(p, t, exp)
    \/ \E p \in Callers : StoreAccessTokenCache(p)
    \/ \E p \in Callers, t \in TokenStrs : GetAccessTokenCache(p, t)
    \/ \E p \in Callers : GetAccessTokenDb(p)
    \/ \E p \in Callers : GetAccessTokenFill(p)
    \/ \E p \in Callers, t \in TokenStrs : DeleteAccessTokenDb(p, t)
    \/ \E p \in Callers : DeleteAccessTokenCache(p)
    \/ \E p \in Callers : PgReturn(p)

----------------------------------------------------------------------------
(* MemoryStorage: clients, users, tokens and the store-wide lock m.mu.      *)
(* A call takes the lock (Lock or RLock), runs its body and releases the   *)
(* lock on return (defer Unlock / RUnlock); taking the lock is one step,   *)
(* the body with the release another.  CreatedAt, which no operation       *)
(* reads, is left out of the records of this part.                         *)

ErrClientNotFound == "ClientNotFound"
ErrUserNotFound == "UserNotFound"
ErrTokenNotFound == "TokenNotFound"
ErrTokenExpired == "TokenExpired"
ErrInvalidCredentials == "InvalidCredentials"

\* assignment to an entry in a nil map
NilMapPanic == "panic"

Passwords == {"pw1", "pw2"}

\* user.Password.Valid is false
NoPassword == <<>>

\* bcrypt.GenerateFromPassword
Hash(pw) == <<"bcrypt", pw>>

\* the user records of this part: Username, ID and the stored password credential
UserRows == [username : Usernames, id : {"u1"}, password : {Hash("pw1"), NoPassword}]

\* bcrypt.CompareHashAndPassword(hashedPassword, password) returns nil
CompareHashAndPassword(h, pw) == h = Hash(pw)

\* MemoryStorage.GetClient
MemGetClient(clients, k) ==
    IF k \in DOMAIN clients THEN << <<clients[k]>>, "ok" >> ELSE << <<>>, ErrClientNotFound >>

\* MemoryStorage.CreateClient
MemCreateClient(clients, k, v) == <<Put(clients, k, v), "ok">>

\* an update that stores the client whether or not the key is stored
MemUpsertClient(clients, k, v) == <<Put(clients, k, v), "ok">>

\* MemoryStorage.UpdateClient
MemUpdateClient(clients, k, v) ==
    IF k \notin DOMAIN clients THEN <<clients, ErrClientNotFound>> ELSE <<Put(clients, k, v), "ok">>

\* MemoryStorage.DeleteClient
MemDeleteClient(clients, k) == <<Remove(clients, k), "ok">>

\* MemoryStorage.GetUser
MemGetUser(users, u) ==
    IF u \in DOMAIN users THEN << <<users[u]>>, "ok" >> ELSE << <<>>, ErrUserNotFound >>

\* MemoryStorage.GetUserByID
MemGetUserByID(usersByID, id) ==
    IF id \in DOMAIN usersByID THEN << <<usersByID[id]>>, "ok" >> ELSE << <<>>, ErrUserNotFound >>

\* MemoryStorage.CreateUser: m.users[user.Username] = user
MemCreateUser(users, u, v) == <<Put(users, u, v), "ok">>

\* MemoryStorage.CreateUser: m.usersByID[user.ID] = user
MemCreateUserByID(usersByID, v) == Put(usersByID, v.id, v)

\* MemoryStorage.AuthenticateUser
MemAuthenticateUser(users, u, pw) ==
    LET r == MemGetUser(users, u) IN
    IF r[2] # "ok" THEN << <<>>, r[2] >>
    ELSE IF r[1][1].password = NoPassword THEN << <<>>, ErrInvalidCredentials >>
    ELSE IF ~CompareHashAndPassword(r[1][1].password, pw) THEN << <<>>, ErrInvalidCredentials >>
    ELSE r

ErrScopeNotFound == "ScopeNotFound"

\* a lookup that finds a scope of every name
MemGetScopeFound(scopes, s) == << <<[name |-> s, isDefault |-> FALSE]>>, "ok" >>

\* MemoryStorage.GetScope
MemGetScope(scopes, s) ==
    IF s \in DOMAIN scopes THEN << <<scopes[s]>>, "ok" >> ELSE << <<>>, ErrScopeNotFound >>

\* MemoryStorage.GetDefaultScope: return "read", nil
MemGetDefaultScope == << <<"read">>, "ok" >>

\* MemoryStorage.StoreAccessToken, StoreRefreshToken
MemStoreToken(tokens, t, v) == <<Put(tokens, t, v), "ok">>

\* MemoryStorage.GetAccessToken
MemGetAccessToken(tokens, t, time) ==
    IF t \in DOMAIN tokens
    THEN IF Before(tokens[t].expiresAt, time)
         THEN << <<>>, ErrTokenExpired >>
         ELSE << <<tokens[t]>>, "ok" >>
    ELSE << <<>>, ErrTokenNotFound >>

\* MemoryStorage.DeleteAccessToken
MemDeleteAccessToken(tokens, t) == <<Remove(tokens, t), "ok">>

\* MemoryStorage.GetRefreshToken
MemGetRefreshToken(tokens, t, time) ==
    IF t \in DOMAIN tokens
    THEN IF Before(tokens[t].expiresAt, time)
         THEN << <<>>, ErrTokenExpired >>
         ELSE << <<tokens[t]>>, "ok" >>
    ELSE << <<>>, ErrTokenNotFound >>

\* a DeleteRefreshToken that empties the map
MemDeleteRefreshTokenAll(tokens, t) == << <<>>, "ok" >>

\* MemoryStorage.DeleteRefreshToken
MemDeleteRefreshToken(tokens, t) == <<Remove(tokens, t), "ok">>

\* the loops of MemoryStorage.CleanupExpiredTokens: the entries kept
Unexpired(tokens, time) ==
    [t \in {x \in DOMAIN tokens : ~Before(tokens[x].expiresAt, time)} |-> tokens[t]]

\* the operations that take m.mu.Lock, and those that take m.mu.RLock
Mutators ==
    {"CreateClient", "UpdateClient", "DeleteClient", "CreateUser", "StoreAccessToken",
     "DeleteAccessToken", "StoreRefreshToken", "StoreAuthorizationCode",
     "CleanupExpiredTokens", "Close"}
Readers == {"GetClient", "GetUser", "AuthenticateUser", "GetAccessToken"}

\* every operation takes the read lock
RLockAlways(op) == "RLock"

\* m.mu.Lock() or m.mu.RLock() at the head of the operation
LockOf(op) == IF op \in Mutators THEN "Lock" ELSE "RLock"

\* sync.RWMutex: Lock waits for the lock to be free, RLock for no writer
CanLock(kind) ==
    IF kind = "Lock" THEN muWriter = {} /\ muReaders = {} ELSE muWriter = {}

\* NewMemoryStorage: empty maps, the lock free, no call in progress
MemInit ==
    /\ mClients = <<>>
    /\ mUsers = <<>>
    /\ mUsersByID = <<>>
    /\ mScopes = <<>>
    /\ mAccessTokens = <<>>
    /\ mRefreshTokens = <<>>
    /\ mClosed = FALSE
    /\ muWriter = {}
    /\ muReaders = {}
    /\ mpc = [p \in Callers |-> "idle"]
    /\ mop = [p \in Callers |-> ""]
    /\ mkey = [p \in Callers |-> ""]
    /\ marg = [p \in Callers |-> <<>>]
    /\ mret = [p \in Callers |-> <<>>]
    /\ merr = [p \in Callers |-> "none"]

\* caller p calls op(k, v) and takes the lock
MemLock(p, op, k, v) ==
    /\ mpc[p] = "idle"
    /\ CanLock(LockOf(op))
    /\ IF LockOf(op) = "Lock"
       THEN muWriter' = muWriter \cup {p} /\ muReaders' = muReaders
       ELSE muReaders' = muReaders \cup {p} /\ muWriter' = muWriter
    /\ mpc' = [mpc EXCEPT ![p] = "in"]
    /\ mop' = [mop EXCEPT ![p] = op]
    /\ mkey' = [mkey EXCEPT ![p] = k]
    /\ marg' = [marg EXCEPT ![p] = v]
    /\ UNCHANGED <<now, memMaps, mret, merr>>
    /\ UNCHANGED <<authVars, codeVars, pgVars, sdkVars>>

\* caller p is in the body of op
MemIn(p, op) == mpc[p] = "in" /\ mop[p] = op

\* the deferred Unlock / RUnlock and the return of (ret, err)
MemUnlock(p, ret, err) ==
    /\ muWriter' = muWriter \ {p}
    /\ muReaders' = muReaders \ {p}
    /\ mpc' = [mpc EXCEPT ![p] = "done"]
    /\ mret' = [mret EXCEPT ![p] = ret]
    /\ merr' = [merr EXCEPT ![p] = err]
    /\ UNCHANGED <<now, mop, mkey, marg>>
    /\ UNCHANGED <<authVars, pgVars, sdkVars>>

\* the body of a lookup: r is <<record, error>>
MemRead(p, op, r) ==
    /\ MemIn(p, op)
    /\ MemUnlock(p, r[1], r[2])
    /\ UNCHANGED <<memMaps, codeVars>>

\* the body of a write to a map (nil after Close): r is <<map, error>>
MemWritten(r) == IF mClosed THEN NilMapPanic ELSE r[2]

MemoryGetClient(p) == MemRead(p, "GetClient", MemGetClient(mClients, mkey[p]))
MemoryGetAccessToken(p) ==
    MemRead(p, "GetAccessToken", MemGetAccessToken(mAccessTokens, mkey[p], now))

MemoryCreateClient(p) ==
    /\ MemIn(p, "CreateClient")
    /\ LET r == MemCreateClient(mClients, mkey[p], marg[p][1]) IN
        /\ mClients' = IF mClosed THEN mClients ELSE r[1]
        /\ MemUnlock(p, <<>>, MemWritten(r))
    /\ UNCHANGED <<mUsers, mUsersByID, mScopes, mAccessTokens, mRefreshTokens, mClosed, codeVars>>

MemoryUpdateClient(p) ==
    /\ MemIn(p, "UpdateClient")
    /\ LET r == MemUpdateClient(mClients, mkey[p], marg[p][1]) IN
        /\ mClients' = r[1]
        /\ MemUnlock(p, <<>>, r[2])
    /\ UNCHANGED <<mUsers, mUsersByID, mScopes, mAccessTokens, mRefreshTokens, mClosed, codeVars>>

MemoryDeleteClient(p) ==
    /\ MemIn(p, "DeleteClient")
    /\ LET r == MemDeleteClient(mClients, mkey[p]) IN
        /\ mClients' = r[1]
        /\ MemUnlock(p, <<>>, r[2])
    /\ UNCHANGED <<mUsers, mUsersByID, mScopes, mAccessTokens, mRefreshTokens, mClosed, codeVars>>

MemoryStoreAccessToken(p) ==
    /\ MemIn(p, "StoreAccessToken")
    /\ LET r == MemStoreToken(mAccessTokens, mkey[p], marg[p][1]) IN
        /\ mAccessTokens' = IF mClosed THEN mAccessTokens ELSE r[1]
        /\ MemUnlock(p, <<>>, MemWritten(r))
    /\ UNCHANGED <<mClients, mUsers, mUsersByID, mScopes, mRefreshTokens, mClosed, codeVars>>

MemoryDeleteAccessToken(p) ==
    /\ MemIn(p, "DeleteAccessToken")
    /\ LET r == MemDeleteAccessToken(mAccessTokens, mkey[p]) IN
        /\ mAccessTokens' = r[1]
        /\ MemUnlock(p, <<>>, r[2])
    /\ UNCHANGED <<mClients, mUsers, mUsersByID, mScopes, mRefreshTokens, mClosed, codeVars>>

MemoryStoreRefreshToken(p) ==
    /\ MemIn(p, "StoreRefreshToken")
    /\ LET r == MemStoreToken(mRefreshTokens, mkey[p], marg[p][1]) IN
        /\ mRefreshTokens' = IF mClosed THEN mRefreshTokens ELSE r[1]
        /\ MemUnlock(p, <<>>, MemWritten(r))
    /\ UNCHANGED <<mClients, mUsers, mUsersByID, mScopes, mAccessTokens, mClosed, codeVars>>

\* MemoryStorage.StoreAuthorizationCode under the lock
MemoryStoreAuthorizationCode(p) ==
    /\ MemIn(p, "StoreAuthorizationCode")
    /\ authCodes' = IF mClosed THEN authCodes
                    ELSE Put(authCodes, mkey[p],
                             [expiresAt |-> marg[p][1].expiresAt, createdAt |-> now])
    /\ obtained' = [obtained EXCEPT ![mkey[p]] = 0]
    /\ redeemed' = redeemed \ {mkey[p]}
    /\ MemUnlock(p, <<>>, IF mClosed THEN NilMapPanic ELSE "ok")
    /\ UNCHANGED <<memMaps, rpc, rcode, rgot, rerr, rsecond>>

\* MemoryStorage.CleanupExpiredTokens: access tokens, then refresh tokens
MemoryCleanupExpiredTokens(p) ==
    /\ MemIn(p, "CleanupExpiredTokens")
    /\ mAccessTokens' = Unexpired(mAccessTokens, now)
    /\ mRefreshTokens' = Unexpired(mRefreshTokens, now)
    /\ MemUnlock(p, <<>>, "ok")
    /\ UNCHANGED <<mClients, mUsers, mUsersByID, mScopes, mClosed, codeVars>>

\* MemoryStorage.Close: every map becomes nil
MemoryClose(p) ==
    /\ MemIn(p, "Close")
    /\ mClients' = <<>>
    /\ mUsers' = <<>>
    /\ mUsersByID' = <<>>
    /\ mScopes' = <<>>
    /\ mAccessTokens' = <<>>
    /\ mRefreshTokens' = <<>>
    /\ authCodes' = <<>>
    /\ mClosed' = TRUE
    /\ MemUnlock(p, <<>>, "ok")
    /\ UNCHANGED <<rpc, rcode, rgot, rerr, rsecond, obtained, redeemed>>

\* the caller takes the result and may call again
MemReturn(p) ==
    /\ mpc[p] = "done"
    /\ mpc' = [mpc EXCEPT ![p] = "idle"]
    /\ mop' = [mop EXCEPT ![p] = ""]
    /\ mkey' = [mkey EXCEPT ![p] = ""]
    /\ marg' = [marg EXCEPT ![p] = <<>>]
    /\ mret' = [mret EXCEPT ![p] = <<>>]
    /\ merr' = [merr EXCEPT ![p] = "none"]
    /\ UNCHANGED <<now, memMaps, muWriter, muReaders>>
    /\ UNCHANGED <<authVars, codeVars, pgVars, sdkVars>>

MemTick == Tick /\ UNCHANGED <<authVars, codeVars, pgVars, memVars, sdkVars>>

----------------------------------------------------------------------------
(* PostgreSQLStorage with no cache (s.cache == nil): each operation is its  *)
(* database call.                                                          *)

\* PostgreSQLStorage.GetClient, GetUser, GetAccessToken: <<record, error>>
PgGet(tbl, k) == IF k \in DOMAIN tbl THEN << <<tbl[k]>>, "ok" >> ELSE << <<>>, "ok" >>

\* db.Create: <<table, error>>
PgCreate(tbl, k, v) == IF k \in DOMAIN tbl THEN <<tbl, ErrBackend>> ELSE <<Put(tbl, k, v), "ok">>

\* db.Save: <<table, error>>
PgSave(tbl, k, v) == <<Put(tbl, k, v), "ok">>

\* db.Where(...).Delete: <<table, error>>
PgDelete(tbl, k) == <<Remove(tbl, k), "ok">>

\* PostgreSQLStorage.GetUserByID: <<record, error>>
PgGetUserByID(tbl, id) ==
    IF \E u \in DOMAIN tbl : tbl[u].id = id
    THEN << <<tbl[CHOOSE u \in DOMAIN tbl : tbl[u].id = id]>>, "ok" >>
    ELSE << <<>>, "ok" >>

\* db.Create(user): the username and the id are unique in oauth_users
PgCreateUser(tbl, u, v) ==
    IF \E x \in DOMAIN tbl : tbl[x].id = v.id THEN <<tbl, ErrBackend>> ELSE PgCreate(tbl, u, v)

\* PostgreSQLStorage.AuthenticateUser: GetUser, and the user found is returned
PgAuthenticateUser(users, u, pw) == PgGet(users, u)

----------------------------------------------------------------------------
(* The two backends side by side: every operation of the Persistence Port  *)
(* is applied to MemoryStorage and to PostgreSQLStorage, and the results   *)
(* (<<record, error>>) are kept.                                           *)

\* the access token records of this part
TokenRows == {[expiresAt |-> e] : e \in TokenExpiries}

\* a lookup on both backends
BothRead(op, k, v, m, g) ==
    /\ lastOp' = [op |-> op, key |-> k, arg |-> v]
    /\ outMem' = m
    /\ outPg' = g
    /\ UNCHANGED <<now, memVars, pgVars, backend, cacheCfg, sdkCall, iresp, rotVars, mcVars>>
    /\ UNCHANGED <<authVars, codeVars>>

\* a write on both backends: m and g are <<map, error>>
BothWritten(op, k, v, m, g) ==
    /\ lastOp' = [op |-> op, key |-> k, arg |-> v]
    /\ outMem' = << <<>>, m[2] >>
    /\ outPg' = << <<>>, g[2] >>
    /\ UNCHANGED <<now, backend, cacheCfg, sdkCall, iresp, rotVars, mcVars>>
    /\ UNCHANGED <<mClosed, muWriter, muReaders, mpc, mop, mkey, marg, mret, merr>>
    /\ UNCHANGED <<faults, provider, cacheOk, cache, pgCall, updated, revoked>>
    /\ UNCHANGED <<authVars, codeVars>>

BothGetClient(k) ==
    BothRead("GetClient", k, <<>>, MemGetClient(mClients, k), PgGet(dbClients, k))

BothGetUser(u) ==
    BothRead("GetUser", u, <<>>, MemGetUser(mUsers, u), PgGet(dbUsers, u))

BothAuthenticateUser(u, pw) ==
    BothRead("AuthenticateUser", u, <<pw>>,
             MemAuthenticateUser(mUsers, u, pw), PgAuthenticateUser(dbUsers, u, pw))

BothGetAccessToken(t) ==
    BothRead("GetAccessToken", t, <<>>,
             MemGetAccessToken(mAccessTokens, t, now), PgGet(dbTokens, t))

BothCreateClient(k, v) ==
    LET m == MemCreateClient(mClients, k, v)
        g == PgCreate(dbClients, k, v) IN
    /\ mClients' = m[1] /\ dbClients' = g[1]
    /\ BothWritten("CreateClient", k, <<v>>, m, g)
    /\ UNCHANGED <<mUsers, mUsersByID, mScopes, mAccessTokens, mRefreshTokens, dbUsers, dbRefresh, dbCodes, dbTokens>>

BothUpdateClient(k, v) ==
    LET m == MemUpdateClient(mClients, k, v)
        g == PgSave(dbClients, k, v) IN
    /\ mClients' = m[1] /\ dbClients' = g[1]
    /\ BothWritten("UpdateClient", k, <<v>>, m, g)
    /\ UNCHANGED <<mUsers, mUsersByID, mScopes, mAccessTokens, mRefreshTokens, dbUsers, dbRefresh, dbCodes, dbTokens>>

\* a DeleteClient that also drops the access tokens of MemoryStorage
BothDeleteClientCascade(k) ==
    LET m == MemDeleteClient(mClients, k)
        g == PgDelete(dbClients, k) IN
    /\ mClients' = m[1] /\ dbClients' = g[1]
    /\ mAccessTokens' = <<>>
    /\ BothWritten("DeleteClient", k, <<>>, m, g)
    /\ UNCHANGED <<mUsers, mUsersByID, mScopes, mRefreshTokens, dbUsers, dbRefresh, dbCodes, dbTokens>>

BothDeleteClient(k) ==
    LET m == MemDeleteClient(mClients, k)
        g == PgDelete(dbClients, k) IN
    /\ mClients' = m[1] /\ dbClients' = g[1]
    /\ BothWritten("DeleteClient", k, <<>>, m, g)
    /\ UNCHANGED <<mUsers, mUsersByID, mScopes, mAccessTokens, mRefreshTokens, dbUsers, dbRefresh, dbCodes, dbTokens>>

BothGetUserByID(id) ==
    BothRead("GetUserByID", id, <<>>, MemGetUserByID(mUsersByID, id), PgGetUserByID(dbUsers, id))

BothCreateUser(u, v) ==
    LET m == MemCreateUser(mUsers, u, v)
        g == PgCreateUser(dbUsers, u, v) IN
    /\ mUsers' = m[1] /\ dbUsers' = g[1]
    /\ mUsersByID' = MemCreateUserByID(mUsersByID, v)
    /\ BothWritten("CreateUser", u, <<v>>, m, g)
    /\ UNCHANGED <<mClients, mScopes, mAccessTokens, mRefreshTokens, dbClients, dbRefresh, dbCodes, dbTokens>>

\* token.CreatedAt = time.Now().UTC() of MemoryStorage.StoreAccessToken, and the
\* CreatedAt that gorm's db.Create fills in
Stamped(v, time) ==
    [f \in DOMAIN v \cup {"createdAt"} |-> IF f = "createdAt" THEN time ELSE v[f]]

BothStoreAccessToken(t, v) ==
    LET m == MemStoreToken(mAccessTokens, t, Stamped(v, now))
        g == PgCreate(dbTokens, t, Stamped(v, now)) IN
    /\ mAccessTokens' = m[1] /\ dbTokens' = g[1]
    /\ BothWritten("StoreAccessToken", t, <<v>>, m, g)
    /\ UNCHANGED <<mClients, mUsers, mUsersByID, mScopes, mRefreshTokens, dbClients, dbUsers, dbRefresh, dbCodes>>

BothDeleteAccessToken(t) ==
    LET m == MemDeleteAccessToken(mAccessTokens, t)
        g == PgDelete(dbTokens, t) IN
    /\ mAccessTokens' = m[1] /\ dbTokens' = g[1]
    /\ BothWritten("DeleteAccessToken", t, <<>>, m, g)
    /\ UNCHANGED <<mClients, mUsers, mUsersByID, mScopes, mRefreshTokens, dbClients, dbUsers, dbRefresh, dbCodes>>

BothNext ==
    \/ MemTick
    \/ \E k \in ClientKeys : BothGetClient(k)
    \/ \E u \in Usernames : BothGetUser(u)
    \/ \E u \in Usernames, pw \in Passwords : BothAuthenticateUser(u, pw)
    \/ \E t \in TokenStrs : BothGetAccessToken(t)
    \/ \E k \in ClientKeys, v \in Rows : BothCreateClient(k, v)
    \/ \E k \in ClientKeys, v \in Rows : BothUpdateClient(k, v)
    \/ \E k \in ClientKeys : BothDeleteClient(k)
    \/ \E v \in UserRows : BothCreateUser(v.username, v)
    \/ \E t \in TokenStrs, v \in TokenRows : BothStoreAccessToken(t, v)
    \/ \E t \in TokenStrs : BothDeleteAccessToken(t)

----------------------------------------------------------------------------
(* The SDK: Builder.Build and SDK.GrantPasswordToken over its storage.     *)
(* The contents of a client record stand for the client's secret.          *)

ErrGetClient == "failed to get client"
ErrInvalidClient == "invalid client credentials"
ErrAuthenticateUser == "failed to authenticate user"
ErrInvalidUser == "invalid user credentials"
ErrGenerateTokens == "failed to generate tokens"

\* accessToken.Token with accessToken == nil
NilDereference == "panic: nil pointer dereference"

\* the scope strings a request can carry: none, a stored name, an unknown name
ScopeStrings == {"", "read", "admin"}

\* the arguments of GrantPasswordToken
GrantArgs ==
    [clientID : ClientKeys, clientSecret : Rows, username : Usernames, password : Passwords,
     scope : ScopeStrings]

NoArgs == [clientID |-> "", clientSecret |-> 0, username |-> "", password |-> "", scope |-> ""]

\* NewSDK: nothing built, no grant in progress, no operation applied
SdkInit ==
    /\ built = FALSE
    /\ berr = "none"
    /\ gpc = "idle"
    /\ garg = NoArgs
    /\ gclient = <<>>
    /\ guser = <<>>
    /\ gret = "none"
    /\ gresp = <<>>
    /\ gsteps = <<>>
    /\ lastOp = [op |-> "", key |-> "", arg |-> <<>>]
    /\ outMem = << <<>>, "none" >>
    /\ outPg = << <<>>, "none" >>
    /\ iresp = <<>>
    /\ rotPc = [p \in Callers |-> "idle"]
    /\ rotArg = [p \in Callers |-> <<>>]
    /\ rotOld = [p \in Callers |-> <<>>]
    /\ rotNew = [p \in Callers |-> ""]
    /\ rotErr = [p \in Callers |-> "none"]

\* s.storage.GetClient and s.storage.AuthenticateUser of the SDK's backend
StorageGetClient(k) ==
    IF backend = "memory" THEN MemGetClient(mClients, k) ELSE PgGet(dbClients, k)
StorageAuthenticateUser(u, pw) ==
    IF backend = "memory" THEN MemAuthenticateUser(mUsers, u, pw)
    ELSE PgAuthenticateUser(dbUsers, u, pw)

\* SDK.verifyClientSecret: return true
verifyClientSecret(client, secret) == TRUE

\* SDK.generateTokens: return nil, nil, nil -- <<accessToken, refreshToken, error>>
generateTokens(client, user, scope) == << <<>>, <<>>, "ok" >>

\* createRateLimiter: return nil, nil -- <<rateLimiter, error>>
createRateLimiter == << <<>>, "ok" >>

\* SDK.startBackgroundWorkers: the body is empty, no worker is started
startBackgroundWorkers == TRUE

\* DefaultFactory.CreateCache: the error ("ok" is nil)
CreateCache(prov) ==
    IF prov = "redis" THEN "redis cache implementation needed"
    ELSE IF prov = "memory" THEN "ok"
    ELSE "unsupported cache provider"

\* DefaultFactory.CreateStorage: the error ("ok" is nil)
CreateStorage(type) ==
    IF type \in {"memory", ""} THEN "ok"
    ELSE IF type = "postgres" THEN "postgres storage implementation needed"
    ELSE "unsupported storage type"

ErrCreateCache == "failed to create cache provider"
ErrCreateStorage == "failed to create storage backend"
ErrCreateRateLimiter == "failed to create rate limiter"

\* Builder.Build: the returned error; the SDK is returned when it is nil
BuildError(type, prov) ==
    IF prov # "none" /\ CreateCache(prov) # "ok" THEN ErrCreateCache
    ELSE IF CreateStorage(type) # "ok" THEN ErrCreateStorage
    ELSE IF createRateLimiter[2] # "ok" THEN ErrCreateRateLimiter
    ELSE "ok"

\* Builder.Build
Build ==
    /\ ~built /\ berr = "none"
    /\ berr' = BuildError(backend, cacheCfg)
    /\ built' = (berr' = "ok")
    /\ startBackgroundWorkers
    /\ UNCHANGED <<now, backend, cacheCfg, gpc, garg, gclient, guser, gret, gresp, gsteps, lastOp, outMem, outPg, iresp, rotVars, mcVars>>
    /\ UNCHANGED <<authVars, codeVars, pgVars, memVars>>

\* the grant is entered
GrantPasswordToken(a) ==
    /\ built /\ gpc = "idle"
    /\ gpc' = "client"
    /\ garg' = a
    /\ UNCHANGED <<now, backend, cacheCfg, built, berr, gclient, guser, gret, gresp, gsteps, lastOp, outMem, outPg, iresp, rotVars, mcVars>>
    /\ UNCHANGED <<authVars, codeVars, pgVars, memVars>>

\* &TokenResponse{...} of GrantPasswordToken
TokenResponse(accessToken, refreshToken, scope) ==
    [access_token |-> accessToken.token, token_type |-> "Bearer",
     expires_in |-> accessToken.expiresAt - now,
     refresh_token |-> refreshToken.token, scope |-> scope]

\* the grant ends with err
GrantFail(err) == gpc' = "done" /\ gret' = err

\* the client of the grant passed "Authenticate client"
ClientPassedAlways(r, secret) == TRUE
ClientPassed(r, secret) ==
    r[2] = "ok" /\ r[1] # <<>> /\ verifyClientSecret(r[1][1], secret)

\* "Authenticate client"
GrantAuthenticateClient ==
    /\ gpc = "client"
    /\ LET r == StorageGetClient(garg.clientID) IN
        /\ gsteps' = Append(gsteps, "GetClient")
        /\ gclient' = r[1]
        /\ IF ClientPassed(r, garg.clientSecret)
           THEN gpc' = "user" /\ gret' = gret
           ELSE IF r[2] # "ok" THEN GrantFail(ErrGetClient) ELSE GrantFail(ErrInvalidClient)
    /\ UNCHANGED <<now, backend, cacheCfg, built, berr, garg, guser, gresp, lastOp, outMem, outPg, iresp, rotVars, mcVars>>
    /\ UNCHANGED <<authVars, codeVars, pgVars, memVars>>

\* "Authenticate user"
GrantAuthenticateUser ==
    /\ gpc = "user"
    /\ LET r == StorageAuthenticateUser(garg.username, garg.password) IN
        /\ gsteps' = Append(gsteps, "AuthenticateUser")
        /\ guser' = r[1]
        /\ IF r[2] # "ok" THEN GrantFail(ErrAuthenticateUser)
           ELSE IF r[1] = <<>> THEN GrantFail(ErrInvalidUser)
           ELSE gpc' = "tokens" /\ gret' = gret
    /\ UNCHANGED <<now, backend, cacheCfg, built, berr, garg, gclient, gresp, lastOp, outMem, outPg, iresp, rotVars, mcVars>>
    /\ UNCHANGED <<authVars, codeVars, pgVars, memVars>>

\* "Generate tokens" and the TokenResponse built from them
GrantGenerateTokens ==
    /\ gpc = "tokens"
    /\ LET r == generateTokens(gclient, guser, garg.scope) IN
        /\ gsteps' = Append(gsteps, "generateTokens")
        /\ IF r[3] # "ok" THEN GrantFail(ErrGenerateTokens) /\ gresp' = <<>>
           ELSE IF r[1] = <<>> \/ r[2] = <<>> THEN GrantFail(NilDereference) /\ gresp' = <<>>
           ELSE /\ gpc' = "done" /\ gret' = "ok"
                /\ gresp' = <<TokenResponse(r[1][1], r[2][1], garg.scope)>>
    /\ UNCHANGED <<now, backend, cacheCfg, built, berr, garg, gclient, guser, lastOp, outMem, outPg, iresp, rotVars, mcVars>>
    /\ UNCHANGED <<authVars, codeVars, pgVars, memVars>>

\* the caller takes the result and may ask for another grant
GrantReturn ==
    /\ gpc = "done"
    /\ gpc' = "idle"
    /\ garg' = NoArgs
    /\ gclient' = <<>>
    /\ guser' = <<>>
    /\ gret' = "none"
    /\ gresp' = <<>>
    /\ gsteps' = <<>>
    /\ UNCHANGED <<now, backend, cacheCfg, built, berr, lastOp, outMem, outPg, iresp, rotVars, mcVars>>
    /\ UNCHANGED <<authVars, codeVars, pgVars, memVars>>

----------------------------------------------------------------------------
(* The user and scope operations of the Persistence Port, each applied as  *)
(* one step.  PostgreSQLStorage has no GetScope and no GetDefaultScope.     *)

\* the users of this part: two usernames, two ids
IndexedUsers == [username : {"alice", "bob"}, id : {"u1", "u2"}, password : {NoPassword}]

\* an operation of MemoryStorage alone
MemOnlyRead(op, k, m) == BothRead(op, k, <<>>, m, << <<>>, "none" >>)

PortGetScope(s) == MemOnlyRead("GetScope", s, MemGetScope(mScopes, s))

PortGetDefaultScope == MemOnlyRead("GetDefaultScope", "", MemGetDefaultScope)

\* MemoryStorage.StoreRefreshToken (PostgreSQLStorage has none)
PortStoreRefreshToken(t, v) ==
    LET m == MemStoreToken(mRefreshTokens, t, Stamped(v, now)) IN
    /\ mRefreshTokens' = m[1]
    /\ BothWritten("StoreRefreshToken", t, <<v>>, m, <<dbTokens, "none">>)
    /\ UNCHANGED <<mClients, mUsers, mUsersByID, mScopes, mAccessTokens, pgTables>>

PortNext ==
    \/ \E v \in IndexedUsers : BothCreateUser(v.username, v)
    \/ \E v \in IndexedUsers : BothGetUser(v.username)
    \/ \E v \in IndexedUsers : BothGetUserByID(v.id)
    \/ \E s \in ScopeStrings : PortGetScope(s)
    \/ PortGetDefaultScope

----------------------------------------------------------------------------
(* The Builder's options and the Server's introspection endpoint.          *)

\* Builder.WithPostgreSQL
WithPostgreSQL ==
    /\ ~built /\ berr = "none"
    /\ backend' = "postgres"
    /\ UNCHANGED <<now, cacheCfg, sdkCall, lastOp, outMem, outPg, iresp, rotVars, mcVars>>
    /\ UNCHANGED <<authVars, codeVars, pgVars, memVars>>

\* Builder.WithRedisCache, Builder.WithMemoryCache
WithCache(prov) ==
    /\ ~built /\ berr = "none"
    /\ cacheCfg' = prov
    /\ UNCHANGED <<now, backend, sdkCall, lastOp, outMem, outPg, iresp, rotVars, mcVars>>
    /\ UNCHANGED <<authVars, codeVars, pgVars, memVars>>

WithRedisCache == WithCache("redis")
WithMemoryCache == WithCache("memory")

\* Server.introspectHandler for the request parameter token = t:
\* c.JSON(fiber.Map{"message": "introspect endpoint"})
introspectHandler(t) ==
    /\ built
    /\ iresp' = [message |-> "introspect endpoint"]
    /\ lastOp' = [op |-> "introspect", key |-> t, arg |-> <<>>]
    /\ UNCHANGED <<now, backend, cacheCfg, sdkCall, outMem, outPg, rotVars, mcVars>>
    /\ UNCHANGED <<authVars, codeVars, pgVars, memVars>>

ServerNext ==
    \/ WithPostgreSQL
    \/ WithRedisCache
    \/ WithMemoryCache
    \/ Build
    \/ MemTick
    \/ \E t \in TokenStrs, v \in TokenRows : built /\ BothStoreAccessToken(t, v)
    \/ \E t \in TokenStrs : built /\ BothDeleteAccessToken(t)
    \/ \E t \in TokenStrs : introspectHandler(t)

----------------------------------------------------------------------------
(* The refresh-token grant with rotation, as the specification describes   *)
(* it, over the refresh-token operations of MemoryStorage: look the token  *)
(* up, check its client, mint the access token with the scope asked, write *)
(* the new refresh token with the scope of the old one, then delete the    *)
(* old one.  Each call of the storage is one step.                         *)

RotTokens == {"r1", "r2", "r3"}
RotClients == {"c1", "c2"}

\* the scope a session's refresh token is issued with, and the scopes a
\* refresh request can ask for the access token ("" is none)
SessionScope == "read write"
RotScopes == {"", "read"}

\* the expiry of the tokens this part issues: beyond the clock's range
RotExpiry == 8

ErrInvalidGrant == "InvalidGrant"

\* the refresh requests
RotRequests == [clientID : RotClients, token : RotTokens, scope : RotScopes]

\* a grant issues the first refresh token of the session of client c1
IssueRefreshToken(t) ==
    /\ mRefreshTokens = <<>>
    /\ mRefreshTokens' =
          MemStoreToken(mRefreshTokens, t,
                        Stamped([clientID |-> "c1", scope |-> SessionScope,
                                 expiresAt |-> RotExpiry], now))[1]
    /\ UNCHANGED <<now, mClients, mUsers, mUsersByID, mScopes, mAccessTokens, mClosed>>
    /\ UNCHANGED <<muWriter, muReaders, mpc, mop, mkey, marg, mret, merr>>
    /\ UNCHANGED <<authVars, codeVars, pgVars, sdkVars>>

\* what a step of the refresh grant leaves alone
RotFrame ==
    /\ UNCHANGED <<now, mClients, mUsers, mUsersByID, mScopes, mClosed>>
    /\ UNCHANGED <<muWriter, muReaders, mpc, mop, mkey, marg, mret, merr>>
    /\ UNCHANGED <<backend, cacheCfg, sdkCall, lastOp, outMem, outPg, iresp, mcVars>>
    /\ UNCHANGED <<authVars, codeVars, pgVars>>

\* look up the refresh token; fail if it is not found, expired, or another client's
RotLookup(p, req) ==
    /\ rotPc[p] = "idle"
    /\ rotArg' = [rotArg EXCEPT ![p] = req]
    /\ LET r == MemGetRefreshToken(mRefreshTokens, req.token, now) IN
        IF r[2] # "ok"
        THEN /\ rotPc' = [rotPc EXCEPT ![p] = "done"]
             /\ rotErr' = [rotErr EXCEPT ![p] = r[2]]
             /\ UNCHANGED rotOld
        ELSE IF r[1][1].clientID # req.clientID
        THEN /\ rotPc' = [rotPc EXCEPT ![p] = "done"]
             /\ rotErr' = [rotErr EXCEPT ![p] = ErrInvalidGrant]
             /\ UNCHANGED rotOld
        ELSE /\ rotPc' = [rotPc EXCEPT ![p] = "mint"]
             /\ rotOld' = [rotOld EXCEPT ![p] = r[1]]
             /\ UNCHANGED rotErr
    /\ UNCHANGED <<mAccessTokens, mRefreshTokens, rotNew>>
    /\ RotFrame

\* the scope of the new access token: the scope asked, else the old one's
RotAccessScope(req, old) == IF req.scope = "" THEN old.scope ELSE req.scope

\* mint the new access token
RotMint(p) ==
    /\ rotPc[p] = "mint"
    /\ \E t \in TokenStrs :
        mAccessTokens' =
          MemStoreToken(mAccessTokens, t,
                        Stamped([clientID |-> rotOld[p][1].clientID,
                                 scope |-> RotAccessScope(rotArg[p], rotOld[p][1]),
                                 expiresAt |-> RotExpiry], now))[1]
    /\ rotPc' = [rotPc EXCEPT ![p] = "store"]
    /\ UNCHANGED <<mRefreshTokens, rotArg, rotOld, rotNew, rotErr>>
    /\ RotFrame

\* write the new refresh token, a string not in use, with the old one's scope
RotStoreNew(p) ==
    /\ rotPc[p] = "store"
    /\ \E t \in RotTokens \ DOMAIN mRefreshTokens :
        /\ t \notin {rotArg[q].token : q \in {x \in Callers : rotPc[x] # "idle"}}
        /\ mRefreshTokens' =
              MemStoreToken(mRefreshTokens, t,
                            Stamped([clientID |-> rotOld[p][1].clientID,
                                     scope |-> rotOld[p][1].scope,
                                     expiresAt |-> RotExpiry], now))[1]
        /\ rotNew' = [rotNew EXCEPT ![p] = t]
    /\ rotPc' = [rotPc EXCEPT ![p] = "delete"]
    /\ UNCHANGED <<mAccessTokens, rotArg, rotOld, rotErr>>
    /\ RotFrame

\* delete the old refresh token
RotDeleteOld(p) ==
    /\ rotPc[p] = "delete"
    /\ mRefreshTokens' = MemDeleteRefreshToken(mRefreshTokens, rotArg[p].token)[1]
    /\ rotPc' = [rotPc EXCEPT ![p] = "done"]
    /\ rotErr' = [rotErr EXCEPT ![p] = "ok"]
    /\ UNCHANGED <<mAccessTokens, rotArg, rotOld, rotNew>>
    /\ RotFrame

\* the caller takes the result and may ask again
RotReturn(p) ==
    /\ rotPc[p] = "done"
    /\ rotPc' = [rotPc EXCEPT ![p] = "idle"]
    /\ rotArg' = [rotArg EXCEPT ![p] = <<>>]
    /\ rotOld' = [rotOld EXCEPT ![p] = <<>>]
    /\ rotNew' = [rotNew EXCEPT ![p] = ""]
    /\ rotErr' = [rotErr EXCEPT ![p] = "none"]
    /\ UNCHANGED <<mAccessTokens, mRefreshTokens>>
    /\ RotFrame

RotNext ==
    \/ \E t \in RotTokens : IssueRefreshToken(t)
    \/ \E p \in Callers, req \in RotRequests : RotLookup(p, req)
    \/ \E p \in Callers : RotMint(p)
    \/ \E p \in Callers : RotStoreNew(p)
    \/ \E p \in Callers : RotDeleteOld(p)
    \/ \E p \in Callers : RotReturn(p)
    \/ MemTick

----------------------------------------------------------------------------
(* MemoryCache (src/storage/factory.go): a map of CacheItems and no lock.   *)
(* A call is two steps: the caller enters the method, then the body runs   *)
(* on the map and returns.  A body that runs while another caller is       *)
(* inside a method, one of the two writing, is a concurrent map access:    *)
(* the runtime either lets it pass or stops the process.                   *)

McKeys == {"k1", "k2"}
McVals == {"v1", "v2"}

\* the ttl arguments, in clock units
McTTLs == {0, 1}

\* map[string]interface{} of SetMulti: the same value under one or more keys
McItems == UNION {[K -> {v}] : K \in (SUBSET McKeys) \ {{}}, v \in McVals}

McWriters == {"Set", "Delete", "SetMulti", "DeleteMulti", "FlushAll", "Close"}
McReaders == {"Get", "GetMulti"}

\* "key not found or expired"
ErrCacheMiss == "key not found or expired"

\* MemoryCache.Set: m.data[key] = CacheItem{value, time.Now().Add(ttl)}
MemoryCacheSet(data, k, v, ttl) == Put(data, k, [val |-> v, exp |-> now + ttl])

\* a lookup that ignores the expiry of the item
MemoryCacheLiveAlways(data, k) == k \in DOMAIN data

\* exists && !time.Now().After(item.ExpiresAt)
MemoryCacheLive(data, k) == k \in DOMAIN data /\ ~After(now, data[k].exp)

\* MemoryCache.Get: nil for a live item (dest is left as it was), else the error
MemoryCacheGet(data, k) == IF MemoryCacheLive(data, k) THEN "ok" ELSE ErrCacheMiss

\* MemoryCache.Delete
MemoryCacheDelete(data, k) == Remove(data, k)

\* MemoryCache.SetMulti: Set for every item
MemoryCacheSetMulti(data, items, ttl) ==
    [k \in DOMAIN data \cup DOMAIN items |->
        IF k \in DOMAIN items THEN [val |-> items[k], exp |-> now + ttl] ELSE data[k]]

\* MemoryCache.GetMulti: the values of the live items among keys
MemoryCacheGetMulti(data, keys) ==
    [k \in {x \in keys : MemoryCacheLive(data, x)} |-> data[k].val]

\* MemoryCache.DeleteMulti
MemoryCacheDeleteMulti(data, keys) == [k \in DOMAIN data \ keys |-> data[k]]

\* NewMemoryCache: an empty map, no call in progress
McQuiet ==
    /\ mcData = <<>>
    /\ mcClosed = FALSE
    /\ mcFatal = FALSE
    /\ mcLast = [k \in McKeys |-> <<>>]
    /\ cpc = [p \in Callers |-> "idle"]
    /\ cop = [p \in Callers |-> ""]
    /\ carg = [p \in Callers |-> <<>>]
    /\ cret = [p \in Callers |-> <<>>]

McInit == McQuiet /\ serial = TRUE

\* what a step of MemoryCache leaves alone
McFrame ==
    /\ UNCHANGED <<now, serial>>
    /\ UNCHANGED <<backend, cacheCfg, sdkCall, lastOp, outMem, outPg, iresp, rotVars>>
    /\ UNCHANGED <<authVars, codeVars, pgVars, memVars>>

\* caller p enters method op with arguments a; nothing makes it wait
McEnter(p, op, a) ==
    /\ ~mcFatal
    /\ cpc[p] = "idle"
    /\ serial => \A q \in Callers : cpc[q] = "idle"
    /\ cpc' = [cpc EXCEPT ![p] = "in"]
    /\ cop' = [cop EXCEPT ![p] = op]
    /\ carg' = [carg EXCEPT ![p] = a]
    /\ UNCHANGED <<mcData, mcClosed, mcFatal, mcLast, cret>>
    /\ McFrame

\* the body of caller p runs while another caller is inside a method and one
\* of the two writes the map
McRacing(p) ==
    \E q \in Callers \ {p} :
        cpc[q] = "in" /\ (cop[p] \in McWriters \/ cop[q] \in McWriters)

\* the body of method op of caller p: the map, the closed flag and the history
\* after it, and what it returns; or the runtime stops the process
McBody(p, op, data, closed, last, ret) ==
    /\ ~mcFatal
    /\ cpc[p] = "in" /\ cop[p] = op
    /\ \E fatal \in (IF McRacing(p) THEN BOOLEAN ELSE {FALSE}) :
        IF fatal
        THEN /\ mcFatal' = TRUE
             /\ UNCHANGED <<mcData, mcClosed, mcLast, cpc, cret>>
        ELSE /\ mcFatal' = FALSE
             /\ mcData' = data /\ mcClosed' = closed /\ mcLast' = last
             /\ cpc' = [cpc EXCEPT ![p] = "done"]
             /\ cret' = [cret EXCEPT ![p] = ret]
    /\ UNCHANGED <<cop, carg>>
    /\ McFrame

\* a read leaves the map and the history as they are
McReads(p, op, ret) == McBody(p, op, mcData, mcClosed, mcLast, ret)

\* a write of a nil map panics ("assignment to entry in nil map")
McWrites(p, op, data, last) ==
    IF mcClosed
    THEN McBody(p, op, mcData, mcClosed, mcLast, NilMapPanic)
    ELSE McBody(p, op, data, FALSE, last, "ok")

\* the history after a Set of the keys of items at the current time
McSetAt(items, ttl) ==
    [k \in McKeys |->
        IF k \in DOMAIN items THEN <<[val |-> items[k], at |-> now, ttl |-> ttl]>>
        ELSE mcLast[k]]

\* the history after a removal of keys
McRemoved(keys) == [k \in McKeys |-> IF k \in keys THEN <<>> ELSE mcLast[k]]

CacheSetBody(p) ==
    LET a == carg[p] IN
    McWrites(p, "Set", MemoryCacheSet(mcData, a.key, a.val, a.ttl),
             McSetAt([k \in {a.key} |-> a.val], a.ttl))

CacheGetBody(p) == McReads(p, "Get", MemoryCacheGet(mcData, carg[p].key))

\* delete of a nil map is a no-op
CacheDeleteBody(p) ==
    McBody(p, "Delete", MemoryCacheDelete(mcData, carg[p].key), mcClosed,
           McRemoved({carg[p].key}), "ok")

CacheSetMultiBody(p) ==
    McWrites(p, "SetMulti", MemoryCacheSetMulti(mcData, carg[p].items, carg[p].ttl),
             McSetAt(carg[p].items, carg[p].ttl))

CacheGetMultiBody(p) == McReads(p, "GetMulti", MemoryCacheGetMulti(mcData, carg[p].keys))

CacheDeleteMultiBody(p) ==
    McBody(p, "DeleteMulti", MemoryCacheDeleteMulti(mcData, carg[p].keys), mcClosed,
           McRemoved(carg[p].keys), "ok")

\* MemoryCache.FlushAll: m.data = make(map[string]CacheItem), after Close too
CacheFlushAllBody(p) == McBody(p, "FlushAll", <<>>, FALSE, McRemoved(McKeys), "ok")

\* MemoryCache.Close: m.data = nil
CacheCloseBody(p) == McBody(p, "Close", <<>>, TRUE, McRemoved(McKeys), "ok")

\* the caller takes the result and may call again
McReturn(p) ==
    /\ ~mcFatal
    /\ cpc[p] = "done"
    /\ cpc' = [cpc EXCEPT ![p] = "idle"]
    /\ cop' = [cop EXCEPT ![p] = ""]
    /\ carg' = [carg EXCEPT ![p] = <<>>]
    /\ cret' = [cret EXCEPT ![p] = <<>>]
    /\ UNCHANGED <<mcData, mcClosed, mcFatal, mcLast>>
    /\ McFrame

McTick == Tick /\ UNCHANGED <<authVars, codeVars, pgVars, memVars, sdkVars>>

\* the calls of the cache's methods, the clock standing still
McCalls ==
    \/ \E p \in Callers, k \in McKeys, v \in McVals, ttl \in McTTLs :
            McEnter(p, "Set", [key |-> k, val |-> v, ttl |-> ttl])
    \/ \E p \in Callers, k \in McKeys : McEnter(p, "Get", [key |-> k])
    \/ \E p \in Callers, k \in McKeys : McEnter(p, "Delete", [key |-> k])
    \/ \E p \in Callers, items \in McItems, ttl \in McTTLs :
            McEnter(p, "SetMulti", [items |-> items, ttl |-> ttl])
    \/ \E p \in Callers, keys \in (SUBSET McKeys) \ {{}} :
            McEnter(p, "GetMulti", [keys |-> keys])
    \/ \E p \in Callers, keys \in (SUBSET McKeys) \ {{}} :
            McEnter(p, "DeleteMulti", [keys |-> keys])
    \/ \E p \in Callers : McEnter(p, "FlushAll", <<>>)
    \/ \E p \in Callers : McEnter(p, "Close", <<>>)
    \/ \E p \in Callers : CacheSetBody(p)
    \/ \E p \in Callers : CacheGetBody(p)
    \/ \E p \in Callers : CacheDeleteBody(p)
    \/ \E p \in Callers : CacheSetMultiBody(p)
    \/ \E p \in Callers : CacheGetMultiBody(p)
    \/ \E p \in Callers : CacheDeleteMultiBody(p)
    \/ \E p \in Callers : CacheFlushAllBody(p)
    \/ \E p \in Callers : CacheCloseBody(p)
    \/ \E p \in Callers : McReturn(p)

McNext == McTick \/ McCalls

----------------------------------------------------------------------------
(* oauth.Service.Authenticate *)

\* cnf.Oauth.RefreshTokenLifetime, in clock units
RefreshTokenLifetime == 2

Tokens == {"a1", "a2"}
RTokens == {"r1", "r2"}
ClientIDs == {"c1", "c2"}
NoUser == "NULL"
UserIDs == {"u1", NoUser}

ErrAccessTokenNotFound == "NotFound"
ErrAccessTokenExpired == "Expired"
ErrDatabase == "DBError"

AccessRows == [client : ClientIDs, user : UserIDs, expiresAt : {1}]
RefreshRows == [client : ClientIDs, user : UserIDs, expiresAt : {2, 5}]

\* the access-token tables considered: "a1" is a token of user u1 with client
\* c1, "a2" is any token or is not stored
AccessTables ==
    {t \in UNION {[D -> AccessRows] : D \in SUBSET Tokens} :
        /\ "a1" \in DOMAIN t
        /\ t["a1"].client = "c1" /\ t["a1"].user = "u1"}

\* new(models.OauthAccessToken): the zero value
BlankAccessToken == [client |-> "", user |-> NoUser, expiresAt |-> 0]

\* a lookup that never reports a missing row
RecordNotFoundNever(tbl, s) == FALSE

\* db.Where("token = ?", token).First(accessToken).RecordNotFound()
RecordNotFound(tbl, s) == s \notin DOMAIN tbl

\* what First leaves in accessToken: the row, or the untouched zero value
First(tbl, s) == IF s \in DOMAIN tbl THEN tbl[s] ELSE BlankAccessToken

\* the WHERE clauses of the refresh-token update: client_id = ? and
\* user_id = ? (or user_id IS NULL)
SameOwner(row, at) == row.client = at.client /\ row.user = at.user

\* an update without the WHERE clauses: every refresh token is extended
ExtendEveryRefreshToken(rts, at, inc) ==
    [r \in DOMAIN rts |-> [rts[r] EXCEPT !.expiresAt = inc]]

\* query.UpdateColumn("expires_at", increasedExpiresAt)
ExtendRefreshTokens(rts, at, inc) ==
    [r \in DOMAIN rts |->
        IF SameOwner(rts[r], at) THEN [rts[r] EXCEPT !.expiresAt = inc]
        ELSE rts[r]]

\* no call of Authenticate in progress
AuthIdle ==
    /\ apc = [p \in Callers |-> "idle"]
    /\ atok = [p \in Callers |-> ""]
    /\ aat = [p \in Callers |-> BlankAccessToken]
    /\ anow = [p \in Callers |-> 0]
    /\ ainc = [p \in Callers |-> 0]
    /\ aret = [p \in Callers |-> <<>>]
    /\ ares = [p \in Callers |-> "none"]

\* the tables hold no row and nobody calls Authenticate
AuthQuiet == accessTokens = <<>> /\ refreshTokens = <<>> /\ AuthIdle

AuthInit ==
    /\ now = 0
    /\ accessTokens \in AccessTables
    /\ refreshTokens \in [RTokens -> RefreshRows]
    /\ AuthIdle
    /\ CodeInit
    /\ PgInit /\ MemInit /\ SdkInit /\ McInit
    /\ faults = {} /\ provider = "redis" /\ backend = "memory" /\ cacheCfg = "none"

\* the fetch with the extension run before the checks: the refresh tokens of
\* what First left in accessToken are extended even when the call fails
AuthFetchExtending(p, s) ==
    /\ apc[p] = "idle"
    /\ atok' = [atok EXCEPT ![p] = s]
    /\ aat' = [aat EXCEPT ![p] = First(accessTokens, s)]
    /\ refreshTokens' = ExtendRefreshTokens(refreshTokens, First(accessTokens, s),
                                            now + RefreshTokenLifetime)
    /\ IF RecordNotFound(accessTokens, s)
       THEN /\ ares' = [ares EXCEPT ![p] = ErrAccessTokenNotFound]
            /\ apc' = [apc EXCEPT ![p] = "done"]
            /\ anow' = anow
       ELSE /\ anow' = [anow EXCEPT ![p] = now]
            /\ IF After(now, First(accessTokens, s).expiresAt)
               THEN /\ ares' = [ares EXCEPT ![p] = ErrAccessTokenExpired]
                    /\ apc' = [apc EXCEPT ![p] = "done"]
               ELSE /\ ares' = ares
                    /\ apc' = [apc EXCEPT ![p] = "valid"]
    /\ UNCHANGED <<now, accessTokens, ainc, aret>>
    /\ UNCHANGED <<codeVars, pgVars, memVars, sdkVars>>

\* lines 21-32: fetch the access token, fail with NotFound or Expired
AuthFetch(p, s) ==
    /\ apc[p] = "idle"
    /\ atok' = [atok EXCEPT ![p] = s]
    /\ aat' = [aat EXCEPT ![p] = First(accessTokens, s)]
    /\ IF RecordNotFound(accessTokens, s)
       THEN /\ ares' = [ares EXCEPT ![p] = ErrAccessTokenNotFound]
            /\ apc' = [apc EXCEPT ![p] = "done"]
            /\ anow' = anow
       ELSE /\ anow' = [anow EXCEPT ![p] = now]
            /\ IF After(now, First(accessTokens, s).expiresAt)
               THEN /\ ares' = [ares EXCEPT ![p] = ErrAccessTokenExpired]
                    /\ apc' = [apc EXCEPT ![p] = "done"]
               ELSE /\ ares' = ares
                    /\ apc' = [apc EXCEPT ![p] = "valid"]
    /\ UNCHANGED <<now, accessTokens, refreshTokens, ainc, aret>>
    /\ UNCHANGED <<codeVars, pgVars, memVars, sdkVars>>

\* lines 35-43: build the query and compute the new expiry from the clock
AuthCompute(p) ==
    /\ apc[p] = "valid"
    /\ ainc' = [ainc EXCEPT ![p] = now + RefreshTokenLifetime]
    /\ apc' = [apc EXCEPT ![p] = "computed"]
    /\ UNCHANGED <<now, accessTokens, refreshTokens, atok, aat, anow, aret, ares>>
    /\ UNCHANGED <<codeVars, pgVars, memVars, sdkVars>>

\* lines 44-48: run the update; an error of the database is returned,
\* otherwise the access token is
AuthUpdate(p) ==
    /\ apc[p] = "computed"
    /\ \E dbOk \in BOOLEAN :
        IF dbOk
        THEN /\ refreshTokens' = ExtendRefreshTokens(refreshTokens, aat[p], ainc[p])
             /\ ares' = [ares EXCEPT ![p] = "ok"]
             /\ aret' = [aret EXCEPT ![p] = <<aat[p]>>]
        ELSE /\ refreshTokens' = refreshTokens
             /\ ares' = [ares EXCEPT ![p] = ErrDatabase]
             /\ aret' = aret
    /\ apc' = [apc EXCEPT ![p] = "done"]
    /\ ainc' = [ainc EXCEPT ![p] = 0]
    /\ UNCHANGED <<now, accessTokens, atok, aat, anow>>
    /\ UNCHANGED <<codeVars, pgVars, memVars, sdkVars>>

\* the caller takes the result and may call again
AuthReturn(p) ==
    /\ apc[p] = "done"
    /\ apc' = [apc EXCEPT ![p] = "idle"]
    /\ atok' = [atok EXCEPT ![p] = ""]
    /\ aat' = [aat EXCEPT ![p] = BlankAccessToken]
    /\ anow' = [anow EXCEPT ![p] = 0]
    /\ ainc' = [ainc EXCEPT ![p] = 0]
    /\ aret' = [aret EXCEPT ![p] = <<>>]
    /\ ares' = [ares EXCEPT ![p] = "none"]
    /\ UNCHANGED <<now, accessTokens, refreshTokens>>
    /\ UNCHANGED <<codeVars, pgVars, memVars, sdkVars>>

AuthTick == Tick /\ UNCHANGED <<authVars, codeVars, pgVars, memVars, sdkVars>>

AuthNext ==
    \/ AuthTick
    \/ \E p \in Callers, s \in Tokens : AuthFetch(p, s)
    \/ \E p \in Callers : AuthCompute(p)
    \/ \E p \in Callers : AuthUpdate(p)
    \/ \E p \in Callers : AuthReturn(p)

\* any content of the two tables
SpecAuth == AuthInit /\ [][AuthNext]_vars

\* refresh tokens issued before the run, none later than the lifetime allows
AuthInitIssued ==
    /\ AuthInit
    /\ \A r \in RTokens : refreshTokens[r].expiresAt <= RefreshTokenLifetime

SpecAuthIssued == AuthInitIssued /\ [][AuthNext]_vars

----------------------------------------------------------------------------
(* Claims about Authenticate *)

Stored(s) == s \in DOMAIN accessTokens

ExtendStep(p) == apc[p] = "computed" /\ apc'[p] = "done" /\ ares'[p] = "ok"

\* C2 as stated: a successful Authenticate sets the expiry of every refresh
\* token of the access token's client and user to the clock it read plus the
\* refresh-token lifetime, and no step ever lowers the expiry of a stored
\* refresh token.
C2_Original ==
    [][/\ \A p \in Callers : ExtendStep(p) =>
            \A r \in RTokens : SameOwner(refreshTokens[r], aat[p]) =>
                refreshTokens'[r].expiresAt = ainc[p]
       /\ \A r \in RTokens :
            refreshTokens'[r].expiresAt >= refreshTokens[r].expiresAt]_vars

\* C3 as stated: with refresh tokens issued within the lifetime, the write of
\* an extension never leaves a refresh token with an expiry smaller than the
\* one already written to it, under every interleaving of the callers' steps.
C3_Original ==
    [][\A p \in Callers : ExtendStep(p) =>
        \A r \in RTokens : SameOwner(refreshTokens[r], aat[p]) =>
            refreshTokens'[r].expiresAt >= refreshTokens[r].expiresAt]_vars

----------------------------------------------------------------------------
(* Claims about authorization codes *)

CodeSpecInit == now = 0 /\ AuthQuiet /\ CodeInit /\ PgInit /\ MemInit /\ SdkInit /\ McInit /\ faults = {} /\ provider = "redis" /\ backend = "memory" /\ cacheCfg = "none"

SpecCodes == CodeSpecInit /\ [][CodeNext]_vars

LookupStep(p) == rpc[p] = "idle" /\ rpc'[p] # "idle"

DeleteStep(p) == rpc[p] = "got" /\ rpc'[p] = "done"

\* C5: the lookup of a stored, unexpired code returns it and the delete that
\* follows succeeds and removes it; the lookup of a redemption that starts
\* after a completed redemption of the same code (the code not stored again)
\* fails with NotFound.
C5_SingleUse ==
    [][\A p \in Callers :
        /\ LookupStep(p) =>
            /\ rcode'[p] \in redeemed =>
                    (rerr'[p] = ErrCodeNotFound /\ rgot'[p] = <<>>)
            /\ (/\ rcode'[p] \in DOMAIN authCodes
                /\ authCodes[rcode'[p]].expiresAt >= now) =>
                    (rpc'[p] = "got" /\ rgot'[p] = <<authCodes[rcode'[p]]>>)
        /\ DeleteStep(p) =>
            (rerr'[p] = "ok" /\ rcode[p] \notin DOMAIN authCodes')]_vars

\* a redemption that came second has been answered NotFound
C5_WitnessSecondFails ==
    \E p \in Callers :
        rpc[p] = "done" /\ rsecond[p] /\ rerr[p] = ErrCodeNotFound

\* C6 as stated: between two stores of a code at most one caller's lookup
\* obtains it, whatever the interleaving of the callers' lookups and deletes.
C6_Original == \A c \in Codes : obtained[c] <= 1

----------------------------------------------------------------------------
(* Claims about the cache of clients and users *)

\* the cache and the database answer every call
ClientInit == now = 0 /\ AuthQuiet /\ CodeInit /\ PgInit /\ MemInit /\ SdkInit /\ McInit /\ faults = {} /\ provider = "redis" /\ backend = "memory" /\ cacheCfg = "none"

SpecClients == ClientInit /\ [][ClientNext]_vars

\* C7 as stated: while the last write of a client key is an UpdateClient that
\* has returned, a GetClient of that key answered from the cache or reading
\* the database gets the updated record.
C7_Original ==
    [][\A p \in Callers :
        /\ (/\ ppc[p] = "idle" /\ pop'[p] = "GetClient" /\ ppc'[p] = "done"
            /\ updated[pkey'[p]] # <<>>) => pret'[p] = updated[pkey'[p]]
        /\ (/\ Inside(p, "GetClient", "db") /\ ppc'[p] = "set"
            /\ updated[pkey[p]] # <<>>) => pval'[p] = updated[pkey[p]]]_vars

\* no call of the backend is in progress
PgQuiescent == \A p \in Callers : ppc[p] \in {"idle", "done"}

\* C10 as stated: once the creates, updates and deletes have returned, no
\* cache entry of a client key or username holds a record other than the one
\* in the store.
C10_Original ==
    PgQuiescent =>
        /\ \A k \in ClientKeys : CacheHit(cache, CacheKey("client", k)) =>
            (k \in DOMAIN dbClients /\ cache[CacheKey("client", k)].val = dbClients[k])
        /\ \A u \in Usernames : CacheHit(cache, CacheKey("user", u)) =>
            (u \in DOMAIN dbUsers /\ cache[CacheKey("user", u)].val = dbUsers[u])

----------------------------------------------------------------------------
(* Claims about the cache of access tokens *)

\* the cache and the database answer every call
TokenInit == now = 0 /\ AuthQuiet /\ CodeInit /\ PgInit /\ MemInit /\ SdkInit /\ McInit /\ faults = {} /\ provider = "redis" /\ backend = "memory" /\ cacheCfg = "none"

SpecTokens == TokenInit /\ [][TokenNext]_vars

\* C8 as stated: while a token string is revoked (its DeleteAccessToken has
\* returned and no token with that string has been stored since), no
\* GetAccessToken of it that starts gets a token, from the cache or from the
\* store.
C8_Original ==
    [][\A p \in Callers :
        /\ (/\ ppc[p] = "idle" /\ pop'[p] = "GetAccessToken"
            /\ pkey'[p] \in revoked) => ~(ppc'[p] = "done" /\ pret'[p] # <<>>)
        /\ (/\ Inside(p, "GetAccessToken", "db")
            /\ pkey[p] \in revoked) => ppc'[p] # "set"]_vars

\* C9 as stated: every cache entry of an access token was written with the
\* smaller of the configured cache TTL and the time the token had left at the
\* write.
C9_Original ==
    \A t \in TokenStrs :
        LET k == CacheKey("access_token", t) IN
        k \in DOMAIN cache =>
            cache[k].ttl = Min(ConfiguredCacheTTL,
                               cache[k].val.expiresAt - (cache[k].exp - cache[k].ttl))

----------------------------------------------------------------------------
(* Claims about the cache as an optimization *)

\* the relational backend over the in-memory MemoryCache
MemoryCacheInit ==
    now = 0 /\ AuthQuiet /\ CodeInit /\ PgInit /\ MemInit /\ SdkInit /\ McInit /\ faults = {} /\ provider = "memory" /\ backend = "memory" /\ cacheCfg = "none"

SpecMemoryCache == MemoryCacheInit /\ [][ClientNext]_vars

\* C11 as stated: a GetClient answered from a cache hit returns the client
\* record the store holds, which is what the backend without a cache returns.
C11_Original ==
    [][\A p \in Callers :
        (/\ ppc[p] = "idle" /\ pop'[p] = "GetClient"
         /\ ppc'[p] = "done" /\ pret'[p] # <<>>) =>
            /\ pkey'[p] \in DOMAIN dbClients
            /\ pret'[p] = <<dbClients[pkey'[p]]>>]_vars

\* lookups and the writes that give them something to find (one record per
\* client key and username), over a cache whose calls may fail
FaultyLookupNext ==
    \/ PgTick
    \/ \E p \in Callers, k \in ClientKeys : GetClientCache(p, k)
    \/ \E p \in Callers : GetClientDb(p)
    \/ \E p \in Callers : GetClientFill(p)
    \/ \E p \in Callers, k \in ClientKeys : CreateClientDb(p, k, 1)
    \/ \E p \in Callers : CreateClientCache(p)
    \/ \E p \in Callers, u \in Usernames : GetUserCache(p, u)
    \/ \E p \in Callers : GetUserDb(p)
    \/ \E p \in Callers : GetUserFill(p)
    \/ \E p \in Callers, u \in Usernames : CreateUser(p, u, 1)
    \/ \E p \in Callers, t \in TokenStrs, exp \in TokenExpiries : StoreAccessTokenDb(p, t, exp)
    \/ \E p \in Callers : StoreAccessTokenCache(p)
    \/ \E p \in Callers, t \in TokenStrs : GetAccessTokenCache(p, t)
    \/ \E p \in Callers : GetAccessTokenDb(p)
    \/ \E p \in Callers : GetAccessTokenFill(p)
    \/ \E p \in Callers : PgReturn(p)

CacheFaultInit ==
    now = 0 /\ AuthQuiet /\ CodeInit /\ PgInit /\ MemInit /\ SdkInit /\ McInit /\ faults = {"cache"} /\ provider = "redis" /\ backend = "memory" /\ cacheCfg = "none"

SpecCacheFaults == CacheFaultInit /\ [][FaultyLookupNext]_vars

Lookups == {"GetClient", "GetUser", "GetAccessToken"}

\* the table a lookup reads
StoreOf(op) ==
    CASE op = "GetClient" -> dbClients
      [] op = "GetUser" -> dbUsers
      [] op = "GetAccessToken" -> dbTokens

\* the cache key a lookup uses
KindOf(op) ==
    CASE op = "GetClient" -> "client"
      [] op = "GetUser" -> "user"
      [] op = "GetAccessToken" -> "access_token"

\* C12: a lookup whose cache Get fails or misses goes on to read the store and
\* does not return; the read of the store gives the stored row or (nil, nil);
\* the lookup then returns the row read with a nil error, whether its cache
\* Set succeeded or failed.
C12_CacheFailureFallsBack ==
    [][\A p \in Callers :
        /\ (/\ ppc[p] = "idle" /\ pop'[p] \in Lookups
            /\ (~cacheOk' \/ ~CacheHit(cache, CacheKey(KindOf(pop'[p]), pkey'[p]))))
                => ppc'[p] = "db"
        /\ (ppc[p] = "db" /\ pop[p] \in Lookups /\ ppc'[p] # "db") =>
            IF pkey[p] \in DOMAIN StoreOf(pop[p])
            THEN ppc'[p] = "set" /\ pval'[p] = <<StoreOf(pop[p])[pkey[p]]>>
            ELSE ppc'[p] = "done" /\ pret'[p] = <<>> /\ perr'[p] = "ok"
        /\ (ppc[p] = "set" /\ pop[p] \in Lookups /\ ppc'[p] = "done") =>
            (pret'[p] = pval[p] /\ perr'[p] = "ok")]_vars

\* a lookup has returned the row it read although its cache Set failed
C12_WitnessSetFailed ==
    \E p \in Callers :
        /\ ppc[p] = "done" /\ pop[p] \in Lookups /\ ~cacheOk
        /\ pret[p] # <<>> /\ perr[p] = "ok"
        /\ CacheKey(KindOf(pop[p]), pkey[p]) \notin DOMAIN cache

----------------------------------------------------------------------------
(* Claims about the in-memory backend *)

\* the code string of the calls of this part
SweptCodes == {"k1"}

\* the calls of MemoryStorage: <<method, key, argument>>
MemCalls ==
    {<<"GetClient", k, <<>> >> : k \in ClientKeys}
    \cup {<<"CreateClient", k[1], <<k[2]>> >> : k \in ClientKeys \X Rows}
    \cup {<<"UpdateClient", k[1], <<k[2]>> >> : k \in ClientKeys \X Rows}
    \cup {<<"DeleteClient", k, <<>> >> : k \in ClientKeys}
    \cup {<<"StoreAccessToken", t[1], <<t[2]>> >> : t \in TokenStrs \X TokenRows}
    \cup {<<"GetAccessToken", t, <<>> >> : t \in TokenStrs}
    \cup {<<"DeleteAccessToken", t, <<>> >> : t \in TokenStrs}
    \cup {<<"StoreRefreshToken", t[1], <<t[2]>> >> : t \in TokenStrs \X TokenRows}
    \cup {<<"StoreAuthorizationCode", c[1], <<c[2]>> >> : c \in SweptCodes \X TokenRows}
    \cup {<<"CleanupExpiredTokens", "", <<>> >>, <<"Close", "", <<>> >>}

MemoryNext ==
    \/ MemTick
    \/ \E p \in Callers, c \in MemCalls : MemLock(p, c[1], c[2], c[3])
    \/ \E p \in Callers : MemoryGetClient(p)
    \/ \E p \in Callers : MemoryCreateClient(p)
    \/ \E p \in Callers : MemoryUpdateClient(p)
    \/ \E p \in Callers : MemoryDeleteClient(p)
    \/ \E p \in Callers : MemoryStoreAccessToken(p)
    \/ \E p \in Callers : MemoryGetAccessToken(p)
    \/ \E p \in Callers : MemoryDeleteAccessToken(p)
    \/ \E p \in Callers : MemoryStoreRefreshToken(p)
    \/ \E p \in Callers : MemoryStoreAuthorizationCode(p)
    \/ \E p \in Callers : MemoryCleanupExpiredTokens(p)
    \/ \E p \in Callers : MemoryClose(p)
    \/ \E p \in Callers : MemReturn(p)

MemoryInit ==
    /\ now = 0 /\ AuthQuiet /\ CodeInit /\ PgInit /\ MemInit /\ SdkInit /\ McInit
    /\ faults = {} /\ provider = "redis" /\ backend = "memory" /\ cacheCfg = "none"

SpecMemory == MemoryInit /\ [][MemoryNext]_vars

\* map m holds no entry that expired before time
NoneExpired(m, time) == \A t \in DOMAIN m : ~Before(m[t].expiresAt, time)

\* every entry of m that has not expired before time is in n as it was
UnexpiredKept(m, n, time) ==
    \A t \in DOMAIN m : ~Before(m[t].expiresAt, time) => (t \in DOMAIN n /\ n[t] = m[t])

\* C13 as stated: when CleanupExpiredTokens returns nil at time now, no access
\* token, refresh token or authorization code with an expiry before now is
\* stored, and those with an expiry at or after now are stored unchanged.
C13_Original ==
    [][\A p \in Callers :
        (MemIn(p, "CleanupExpiredTokens") /\ mpc'[p] = "done" /\ merr'[p] = "ok") =>
            /\ NoneExpired(mAccessTokens', now) /\ UnexpiredKept(mAccessTokens, mAccessTokens', now)
            /\ NoneExpired(mRefreshTokens', now) /\ UnexpiredKept(mRefreshTokens, mRefreshTokens', now)
            /\ NoneExpired(authCodes', now) /\ UnexpiredKept(authCodes, authCodes', now)]_vars

\* the callers inside the store in one of the operations ops
InsideStore(ops) == {p \in Callers : mpc[p] = "in" /\ mop[p] \in ops}

\* C15: at most one mutating operation is inside the store, and no lookup is
\* inside while a mutating operation is.
C15_WritersExclusive ==
    /\ Cardinality(InsideStore(Mutators)) <= 1
    /\ InsideStore(Mutators) # {} => InsideStore(Readers) = {}

\* two lookups are inside the store at once
C15_WitnessTwoReaders == Cardinality(InsideStore(Readers)) = 2

\* no write of client k is between its database call and its return
NoClientWriteInFlight(k) == ~\E q \in Callers : ppc[q] = "inval" /\ pkey[q] = k

\* C16 as stated: a GetClient of the relational backend called with a key
\* that is not stored (and that no write in progress has just removed)
\* returns no record, from the cache or from the database.
C16_Original ==
    [][\A p \in Callers :
        /\ (/\ ppc[p] = "idle" /\ pop'[p] = "GetClient" /\ ppc'[p] = "done"
            /\ pkey'[p] \notin DOMAIN dbClients
            /\ NoClientWriteInFlight(pkey'[p])) => pret'[p] = <<>>
        /\ (/\ Inside(p, "GetClient", "db") /\ ppc'[p] # "db"
            /\ pkey[p] \notin DOMAIN dbClients) => (ppc'[p] = "done" /\ pret'[p] = <<>>)]_vars

----------------------------------------------------------------------------
(* Claims about the two backends side by side *)

BackendsInit ==
    /\ now = 0 /\ AuthQuiet /\ CodeInit /\ PgInit /\ MemInit /\ SdkInit /\ McInit
    /\ faults = {} /\ provider = "redis" /\ backend = "memory" /\ cacheCfg = "none"

SpecBackends == BackendsInit /\ [][BothNext]_vars

\* C17 as stated: every operation applied to both backends has the same
\* result, record and error, on MemoryStorage as on PostgreSQLStorage.
C17_Original == outMem = outPg

\* the password is the one whose hash the stored user u holds
PasswordMatches(users, u, pw) == u \in DOMAIN users /\ users[u].password = Hash(pw)

\* C18 as stated: on either backend AuthenticateUser returns the user iff the
\* username is stored and the password matches the stored credential.
C18_Original ==
    lastOp.op = "AuthenticateUser" =>
        /\ outMem[1] # <<>> <=> PasswordMatches(mUsers, lastOp.key, lastOp.arg[1])
        /\ outPg[1] # <<>> <=> PasswordMatches(dbUsers, lastOp.key, lastOp.arg[1])

----------------------------------------------------------------------------
(* Claims about the SDK *)

\* the foreground requests of a built SDK that store tokens and codes
StoreCalls ==
    {<<"StoreAccessToken", t[1], <<t[2]>> >> : t \in TokenStrs \X TokenRows}
    \cup {<<"StoreRefreshToken", t[1], <<t[2]>> >> : t \in TokenStrs \X TokenRows}
    \cup {<<"StoreAuthorizationCode", c[1], <<c[2]>> >> : c \in SweptCodes \X TokenRows}

\* what runs without a request: the clock, and the calls in progress
Background ==
    \/ MemTick
    \/ \E p \in Callers : MemoryStoreAccessToken(p)
    \/ \E p \in Callers : MemoryStoreRefreshToken(p)
    \/ \E p \in Callers : MemoryStoreAuthorizationCode(p)
    \/ \E p \in Callers : MemReturn(p)

SweeperNext ==
    \/ Build
    \/ \E p \in Callers, c \in StoreCalls : built /\ MemLock(p, c[1], c[2], c[3])
    \/ Background

\* the calls in progress finish and the clock goes on; requests need not come
SpecSweeper == MemoryInit /\ [][SweeperNext]_vars /\ WF_vars(Build) /\ WF_vars(Background)

\* an entry of map m that expired before now
Expired(m, t) == t \in DOMAIN m /\ Before(m[t].expiresAt, now)

\* C14 as stated: every access token, refresh token and authorization code
\* that has expired is eventually deleted from the backend.
C14_Original ==
    /\ \A t \in TokenStrs : Expired(mAccessTokens, t) ~> ~Expired(mAccessTokens, t)
    /\ \A t \in TokenStrs : Expired(mRefreshTokens, t) ~> ~Expired(mRefreshTokens, t)
    /\ \A c \in SweptCodes : Expired(authCodes, c) ~> ~Expired(authCodes, c)

GrantNext ==
    \/ Build
    \/ \E k \in ClientKeys, v \in Rows : BothCreateClient(k, v)
    \/ \E k \in ClientKeys : BothDeleteClient(k)
    \/ \E v \in UserRows : BothCreateUser(v.username, v)
    \/ \E a \in GrantArgs : GrantPasswordToken(a)
    \/ GrantAuthenticateClient
    \/ GrantAuthenticateUser
    \/ GrantGenerateTokens
    \/ GrantReturn

\* DefaultFactory.CreateStorage builds the in-memory storage only (every other
\* type is an error that makes Build fail), so a built SDK is over it
GrantInit ==
    /\ now = 0 /\ AuthQuiet /\ CodeInit /\ PgInit /\ MemInit /\ SdkInit /\ McInit
    /\ faults = {} /\ provider = "redis" /\ backend = "memory" /\ cacheCfg = "none"

SpecGrant == GrantInit /\ [][GrantNext]_vars

\* C19 as stated: a grant that found the client and was given a secret other
\* than the stored one has ended with "invalid client credentials" after the
\* lookup of the client, with no later step.
C19_Original ==
    (/\ gpc \in {"user", "tokens", "done"}
     /\ gclient # <<>> /\ gclient[1] # garg.clientSecret) =>
        (gpc = "done" /\ gret = ErrInvalidClient /\ gsteps = <<"GetClient">>)

GrantOrder == <<"GetClient", "AuthenticateUser", "generateTokens">>

InvalidScope == "InvalidScope"

\* C21 as stated: a password grant whose client was found with the secret
\* presented and whose user was authenticated ends with no error and a token
\* response that carries an access token, a refresh token, token_type
\* "Bearer", the scope and the user's id.
C21_Original ==
    (gpc = "done" /\ gclient # <<>> /\ gclient[1] = garg.clientSecret /\ guser # <<>>) =>
        /\ gret = "ok" /\ gresp # <<>>
        /\ gresp[1].access_token # "" /\ gresp[1].refresh_token # ""
        /\ gresp[1].token_type = "Bearer"
        /\ "user_id" \in DOMAIN gresp[1] /\ gresp[1].user_id = guser[1].id

\* C22 as stated: a grant whose client and user passed fails with InvalidScope
\* when it names a scope GetScope does not find; otherwise it succeeds and
\* returns the default scope for an empty scope argument, and the scope asked
\* for any other.
C22_Original ==
    (gpc = "done" /\ gclient # <<>> /\ guser # <<>>) =>
        IF garg.scope # "" /\ MemGetScope(mScopes, garg.scope)[2] # "ok"
        THEN gret = InvalidScope
        ELSE /\ gret = "ok" /\ gresp # <<>>
             /\ gresp[1].scope = IF garg.scope = "" THEN MemGetDefaultScope[1][1]
                                  ELSE garg.scope

----------------------------------------------------------------------------
(* Claims about users and scopes of the in-memory backend *)

PortInit ==
    /\ now = 0 /\ AuthQuiet /\ CodeInit /\ PgInit /\ MemInit /\ SdkInit /\ McInit
    /\ faults = {} /\ provider = "redis" /\ backend = "memory" /\ cacheCfg = "none"

SpecPort == PortInit /\ [][PortNext]_vars

\* the scope names a scope string holds
ScopesOf(str) == IF str = "" THEN {} ELSE {str}

\* C23 as stated: a scope is part of what GetDefaultScope returns iff it is
\* stored and marked default.
C23_Original ==
    lastOp.op = "GetDefaultScope" =>
        \A s \in ScopeStrings \ {""} :
            s \in ScopesOf(outMem[1][1]) <=> (s \in DOMAIN mScopes /\ mScopes[s].isDefault)

\* C25 as stated: GetUserByID(id) returns a user u iff GetUser(u.username)
\* returns that same user and u.id = id.
C25_Original ==
    /\ \A v \in IndexedUsers :
        MemGetUserByID(mUsersByID, v.id)[1] = <<v>> =>
            MemGetUser(mUsers, v.username)[1] = <<v>>
    /\ \A v \in IndexedUsers :
        MemGetUser(mUsers, v.username)[1] = <<v>> =>
            MemGetUserByID(mUsersByID, v.id)[1] = <<v>>

----------------------------------------------------------------------------
(* Claims about stored tokens and the deletion of clients *)

\* PerformanceConfig.AccessTokenTTL of New(): time.Hour, the clock of this
\* part counting hours
AccessTokenTTL == 1

\* C24 as stated: every stored access token expires at its creation time plus
\* the configured access-token lifetime.
C24_Original ==
    \A t \in DOMAIN mAccessTokens :
        mAccessTokens[t].expiresAt = mAccessTokens[t].createdAt + AccessTokenTTL

\* the token and code records of this part name the client they belong to
OwnedRows == [expiresAt : {8}, clientID : ClientKeys]

CascadeNext ==
    \/ \E k \in ClientKeys, v \in Rows : BothCreateClient(k, v)
    \/ \E k \in ClientKeys : BothDeleteClient(k)
    \/ \E v \in UserRows : BothCreateUser(v.username, v)
    \/ \E t \in TokenStrs, v \in OwnedRows : BothStoreAccessToken(t, v)
    \/ \E t \in TokenStrs, v \in OwnedRows : PortStoreRefreshToken(t, v)
    \/ \E c \in SweptCodes : StoreAuthorizationCode(c, 8)
    \/ MemTick

SpecCascade == PortInit /\ [][CascadeNext]_vars

\* a client leaves MemoryStorage or the table oauth_clients in this step
ClientRemoved ==
    \/ \E k \in DOMAIN mClients : k \notin DOMAIN mClients'
    \/ \E k \in DOMAIN dbClients : k \notin DOMAIN dbClients'

\* C26: a step that deletes a client leaves the users, the access tokens, the
\* refresh tokens and the authorization codes of both backends as they were.
C26_DeleteClientKeepsTheRest ==
    [][ClientRemoved =>
        UNCHANGED <<mUsers, mUsersByID, mAccessTokens, mRefreshTokens, authCodes,
                    dbUsers, dbRefresh, dbCodes, dbTokens>>]_vars

\* a client was deleted while a user, tokens of that client and a code stay
C26_WitnessTokensOfDeletedClient ==
    /\ lastOp.op = "DeleteClient" /\ lastOp.key \notin DOMAIN mClients
    /\ mUsers # <<>> /\ authCodes # <<>>
    /\ \E t \in DOMAIN mAccessTokens : mAccessTokens[t].clientID = lastOp.key
    /\ \E t \in DOMAIN mRefreshTokens : mRefreshTokens[t].clientID = lastOp.key
    /\ \E t \in DOMAIN dbTokens : dbTokens[t].clientID = lastOp.key

----------------------------------------------------------------------------
(* Claims about the Builder and the Server *)

\* New(): no storage type (the in-memory storage), no cache
ServerInit ==
    /\ now = 0 /\ AuthQuiet /\ CodeInit /\ PgInit /\ MemInit /\ SdkInit /\ McInit
    /\ faults = {} /\ provider = "redis" /\ backend = "memory" /\ cacheCfg = "none"

SpecServer == ServerInit /\ [][ServerNext]_vars

\* the token is stored and has not expired
Live(t) == MemGetAccessToken(mAccessTokens, t, now)[2] = "ok"

\* C27 as stated: the response of an introspection has active = true for a
\* live token and active = false for any other, and no member of it is the
\* token string.
C27_Original ==
    [][(lastOp'.op = "introspect" /\ lastOp' # lastOp) =>
        /\ "active" \in DOMAIN iresp'
        /\ iresp'.active = Live(lastOp'.key)
        /\ \A f \in DOMAIN iresp' : iresp'[f] # lastOp'.key]_vars

\* the configurations of the README: PostgreSQL, the Redis cache, the memory cache
Documented == {<<"postgres", "none">>, <<"memory", "redis">>, <<"memory", "memory">>}

\* C29 as stated: Build of a documented configuration returns the SDK and no
\* error.
C29_Original ==
    (berr # "none" /\ <<backend, cacheCfg>> \in Documented) => (berr = "ok" /\ built)

\* C30 as stated: a Get that hits (the key was Set, its ttl has not elapsed, no
\* Delete came since) delivers into dest the value that was Set.
C30_Original ==
    [][\A p \in Callers :
        (/\ ppc[p] = "idle" /\ pop'[p] = "GetClient" /\ ppc'[p] = "done"
         /\ CacheHit(cache, CacheKey("client", pkey'[p]))) =>
            pret'[p] = <<cache[CacheKey("client", pkey'[p])].val>>]_vars

----------------------------------------------------------------------------
(* Claims about refresh-token rotation *)

SpecRotation == PortInit /\ [][RotNext]_vars

\* the refresh tokens stored for the session of token record old
SessionTokens(old) ==
    {t \in DOMAIN mRefreshTokens :
        /\ mRefreshTokens[t].clientID = old.clientID
        /\ ~Before(mRefreshTokens[t].expiresAt, now)}

----------------------------------------------------------------------------
(* Claims about what Authenticate leaves alone *)

\* C31: the write of a successful Authenticate(t) changes a refresh token only
\* if its client and its user (or its having no user) are those of t, and then
\* only its expiry; every other refresh token, every access token and every
\* authorization code is left as it was, and no other step of a call writes.
C31_OnlyOwnersRefreshTokens ==
    [][/\ accessTokens' = accessTokens
       /\ authCodes' = authCodes
       /\ DOMAIN refreshTokens' = DOMAIN refreshTokens
       /\ \A r \in DOMAIN refreshTokens :
            refreshTokens'[r] # refreshTokens[r] =>
                \E p \in Callers :
                    /\ ExtendStep(p)
                    /\ Stored(atok[p])
                    /\ refreshTokens[r].client = accessTokens[atok[p]].client
                    /\ refreshTokens[r].user = accessTokens[atok[p]].user
                    /\ refreshTokens'[r] =
                          [refreshTokens[r] EXCEPT !.expiresAt = ainc[p]]]_vars

\* a call for the token of user u1 has succeeded and extended a refresh token
\* of that user, while a refresh token of the same client without a user and
\* one of another client still have the expiry they were stored with
C31_WitnessOthersKept ==
    \E p \in Callers :
        /\ apc[p] = "done" /\ ares[p] = "ok" /\ now = anow[p]
        /\ aat[p].client = "c1" /\ aat[p].user = "u1"
        /\ refreshTokens["r1"].client = "c1" /\ refreshTokens["r1"].user = "u1"
        /\ refreshTokens["r1"].expiresAt = anow[p] + RefreshTokenLifetime
        /\ refreshTokens["r1"].expiresAt \notin {2, 5}
        /\ refreshTokens["r2"].expiresAt = 5
        /\ refreshTokens["r2"].client = "c1" /\ refreshTokens["r2"].user = NoUser

\* the step in which a call of caller p ends with NotFound or Expired
FailStep(p) ==
    /\ apc[p] # "done" /\ apc'[p] = "done"
    /\ ares'[p] \in {ErrAccessTokenNotFound, ErrAccessTokenExpired}

\* C32: a call of Authenticate that fails with NotFound or Expired is the one
\* step of its lookup, and that step writes nothing: every refresh token has
\* the expiry it had before, and the access tokens are as they were.
C32_FailureWritesNothing ==
    [][\A p \in Callers : FailStep(p) =>
            /\ apc[p] = "idle"
            /\ refreshTokens' = refreshTokens
            /\ accessTokens' = accessTokens]_vars

\* a call for an expired token has failed while a refresh token of the
\* token's client and user is stored
C32_WitnessExpiredWithSession ==
    \E p \in Callers :
        /\ apc[p] = "done" /\ ares[p] = ErrAccessTokenExpired
        /\ \E r \in RTokens : SameOwner(refreshTokens[r], aat[p])

----------------------------------------------------------------------------
(* Claims about expired tokens and the cache *)

\* the access-token operations of the relational backend over MemoryCache
SpecTokensMemoryCache == MemoryCacheInit /\ [][TokenNext]_vars

\* the step in which GetAccessToken of caller p returns from the cache
CacheAnswer(p) ==
    /\ ppc[p] = "idle" /\ pop'[p] = "GetAccessToken"
    /\ ppc'[p] = "done" /\ pret'[p] # <<>>

\* C33 as stated: GetAccessToken never writes to the cache a token whose
\* expiry has passed, and never returns from the cache a token whose expiry is
\* at or before the current time.
C33_Original ==
    [][\A p \in Callers :
        /\ (Inside(p, "GetAccessToken", "set") /\ ppc'[p] = "done" /\ cache' # cache) =>
                ~After(now, pval[p][1].expiresAt)
        /\ CacheAnswer(p) => After(pret'[p][1].expiresAt, now)]_vars

----------------------------------------------------------------------------
(* Claims about MemoryCache *)

\* one caller of the cache at a time
SpecCacheSerial == TokenInit /\ [][McNext]_vars

\* several goroutines call the cache
CacheConcurrentInit ==
    /\ now = 0 /\ AuthQuiet /\ CodeInit /\ PgInit /\ MemInit /\ SdkInit
    /\ McQuiet /\ serial = FALSE
    /\ faults = {} /\ provider = "memory" /\ backend = "memory" /\ cacheCfg = "none"

\* the calls of two callers interleaved at one instant
SpecCacheConcurrent == CacheConcurrentInit /\ [][McCalls]_vars

\* key k was Set, has not been removed since by Delete, DeleteMulti, FlushAll
\* or Close, and no more than the ttl of that Set has passed since
LiveSinceSet(k) ==
    /\ mcLast[k] # <<>>
    /\ now <= mcLast[k][1].at + mcLast[k][1].ttl

\* the body of method op of caller p runs and returns
McAnswer(p, op) == cpc[p] = "in" /\ cop[p] = op /\ cpc'[p] = "done"

C36_Original ==
    \A p, q \in Callers :
        (p # q /\ cpc[p] = "in" /\ cpc[q] = "in") =>
            (cop[p] \in McReaders /\ cop[q] \in McReaders)

----------------------------------------------------------------------------
(* Claims about the in-memory backend's clients and scopes *)

\* C35: UpdateClient of the in-memory backend on a key that is not stored
\* returns ErrClientNotFound and leaves the clients as they are; on a stored
\* key it replaces the record of that key, keeps the others and returns nil.
C35_UpdateOnlyStored ==
    [][\A p \in Callers :
        (MemIn(p, "UpdateClient") /\ mpc'[p] = "done") =>
            IF mkey[p] \notin DOMAIN mClients
            THEN merr'[p] = ErrClientNotFound /\ mClients' = mClients
            ELSE /\ merr'[p] = "ok"
                 /\ DOMAIN mClients' = DOMAIN mClients
                 /\ mClients'[mkey[p]] = marg[p][1]
                 /\ \A k \in DOMAIN mClients \ {mkey[p]} : mClients'[k] = mClients[k]]_vars

\* an UpdateClient of a key that is not stored has returned ErrClientNotFound
\* on an open store that still holds no client
C35_WitnessMissingKey ==
    \E p \in Callers :
        /\ mpc[p] = "done" /\ mop[p] = "UpdateClient"
        /\ merr[p] = ErrClientNotFound
        /\ ~mClosed /\ mClients = <<>>

\* every operation of the port, the scope lookups among them
ScopeNext ==
    \/ BothNext
    \/ \E t \in TokenStrs, v \in TokenRows : PortStoreRefreshToken(t, v)
    \/ \E s \in ScopeStrings : PortGetScope(s)
    \/ PortGetDefaultScope

SpecScopes == PortInit /\ [][ScopeNext]_vars

\* C39: in the in-memory backend no scope is ever stored, whatever
\* operations have run: GetScope returns ErrScopeNotFound for every name, and
\* GetDefaultScope returns "read" all the same.
C39_NoScopeEverStored ==
    /\ mScopes = <<>>
    /\ lastOp.op = "GetScope" => outMem = << <<>>, ErrScopeNotFound >>
    /\ lastOp.op = "GetDefaultScope" => outMem = << <<"read">>, "ok" >>

\* GetScope("read") has failed in a store that holds a client, a user and an
\* access token
C39_WitnessReadNotFound ==
    /\ lastOp.op = "GetScope" /\ lastOp.key = "read"
    /\ outMem[2] = ErrScopeNotFound
    /\ mClients # <<>> /\ mUsers # <<>> /\ mAccessTokens # <<>>

----------------------------------------------------------------------------
(* Claims about failures of the relational backend *)

\* the database and the cache may fail at every call
TokenFaultInit ==
    /\ now = 0 /\ AuthQuiet /\ CodeInit /\ PgInit /\ MemInit /\ SdkInit /\ McInit
    /\ faults = {"db", "cache"} /\ provider = "redis" /\ backend = "memory" /\ cacheCfg = "none"

SpecTokenFaults == TokenFaultInit /\ [][TokenNext]_vars

\* caller p enters StoreAccessToken and runs its store write
StoreWriteStep(p) == ppc[p] = "idle" /\ pop'[p] = "StoreAccessToken"

\* C37: StoreAccessToken writes the store first and leaves the cache alone in
\* that step; when the store write fails it returns an error without ever
\* reaching the cache, and only a call whose store write succeeded goes on to
\* write the cache, then only the entry of its own token.
C37_StoreBeforeCache ==
    [][\A p \in Callers :
        /\ StoreWriteStep(p) =>
            /\ cache' = cache
            /\ IF pkey'[p] \in DOMAIN dbTokens' \ DOMAIN dbTokens
               THEN ppc'[p] = "set" /\ dbTokens'[pkey'[p]] = pval'[p][1]
               ELSE /\ ppc'[p] = "done" /\ perr'[p] # "ok"
                    /\ dbTokens' = dbTokens
        /\ (Inside(p, "StoreAccessToken", "set") /\ ppc'[p] # "set") =>
            /\ ppc'[p] = "done" /\ perr'[p] = "ok"
            /\ \A k \in DOMAIN cache' :
                  k # CacheKey("access_token", pkey[p]) =>
                      (k \in DOMAIN cache /\ cache'[k] = cache[k])
            /\ cache' # cache =>
                  cache'[CacheKey("access_token", pkey[p])].val = pval[p][1]]_vars

\* a StoreAccessToken whose store write failed has returned the error; neither
\* the store nor the cache holds its token
C37_WitnessStoreFailed ==
    \E p \in Callers :
        /\ ppc[p] = "done" /\ pop[p] = "StoreAccessToken" /\ perr[p] = ErrBackend
        /\ pkey[p] \notin DOMAIN dbTokens
        /\ CacheKey("access_token", pkey[p]) \notin DOMAIN cache

\* the keys of the rows the cleanup finds
SweepKeys == {"x1", "x2"}

\* the three tables hold rows, expired or not, written by the issuing services
SweepInit ==
    /\ now = 0 /\ AuthQuiet /\ CodeInit /\ MemInit /\ SdkInit /\ McInit
    /\ dbClients = <<>> /\ dbUsers = <<>>
    /\ dbTokens \in [SweepKeys -> TokenRows]
    /\ dbRefresh \in [SweepKeys -> TokenRows]
    /\ dbCodes \in [SweepKeys -> TokenRows]
    /\ PgIdle
    /\ faults = {"db"} /\ provider = "redis" /\ backend = "memory" /\ cacheCfg = "none"

PgSweeperNext ==
    \/ PgTick
    \/ \E p \in Callers : CleanupAccessTokens(p)
    \/ \E p \in Callers : CleanupRefreshTokens(p)
    \/ \E p \in Callers : CleanupAuthorizationCodes(p)
    \/ \E p \in Callers : PgReturn(p)

SpecPgSweeper == SweepInit /\ [][PgSweeperNext]_vars

\* table tbl after the delete of its rows with an expiry before time
Cleaned(tbl, time) ==
    [k \in {x \in DOMAIN tbl : tbl[x].expiresAt >= time} |-> tbl[k]]

\* the delete of caller p's cleanup has failed: the call returns the error
SweepFailed(p) == ppc'[p] = "done" /\ perr'[p] # "ok"

\* C38: CleanupExpiredTokens of the relational backend deletes the expired
\* access tokens, then the expired refresh tokens, then the expired
\* authorization codes, each in a step that leaves the other two tables
\* alone; a failing delete ends the call with an error, leaving its table and
\* the tables after it as they are and the tables before it cleaned; no row
\* with an expiry at or after the time of the call is ever deleted.
C38_SweepInOrder ==
    [][\A p \in Callers :
        /\ (ppc[p] = "idle" /\ pop'[p] = "CleanupExpiredTokens") =>
            /\ dbRefresh' = dbRefresh /\ dbCodes' = dbCodes
            /\ \/ SweepFailed(p) /\ dbTokens' = dbTokens
               \/ ppc'[p] = "refresh" /\ dbTokens' = Cleaned(dbTokens, now)
        /\ (Inside(p, "CleanupExpiredTokens", "refresh") /\ ppc'[p] # "refresh") =>
            /\ dbTokens' = dbTokens /\ dbCodes' = dbCodes
            /\ \/ SweepFailed(p) /\ dbRefresh' = dbRefresh
               \/ ppc'[p] = "codes" /\ dbRefresh' = Cleaned(dbRefresh, pval[p][1])
        /\ (Inside(p, "CleanupExpiredTokens", "codes") /\ ppc'[p] # "codes") =>
            /\ dbTokens' = dbTokens /\ dbRefresh' = dbRefresh
            /\ ppc'[p] = "done"
            /\ \/ SweepFailed(p) /\ dbCodes' = dbCodes
               \/ perr'[p] = "ok" /\ dbCodes' = Cleaned(dbCodes, pval[p][1])
        /\ pop[p] = "CleanupExpiredTokens" => pval[p][1] <= now]_vars

\* a cleanup has failed at the authorization codes: an expired row of the
\* access tokens and one of the refresh tokens are gone, a row that expires
\* at the time of the call is kept, and an expired code is still stored
C38_WitnessFailedAtCodes ==
    \E p \in Callers :
        /\ ppc[p] = "done" /\ pop[p] = "CleanupExpiredTokens" /\ perr[p] = ErrBackend
        /\ DOMAIN dbTokens = {"x2"} /\ DOMAIN dbRefresh = {"x2"}
        /\ DOMAIN dbCodes = SweepKeys
        /\ \E c \in SweepKeys : dbCodes[c].expiresAt < pval[p][1]

====
